---- MODULE Spec2Model ----
(***************************************************************************)
(* Verification model of the ts_raytracer rendering core.                  *)
(*                                                                         *)
(* Numbers.  The TypeScript code computes in IEEE doubles.  Here a number  *)
(* is an integer holding a decimal fixed-point value with three fractional *)
(* digits (1.0 is Scale), plus the three IEEE special values PInf, NInf    *)
(* and NaN.  Every arithmetic operator of the code goes through the F*     *)
(* operators below, which round to the nearest representable value and     *)
(* follow the IEEE rules for the special values (x/0, 0*Infinity, NaN      *)
(* comparisons, Math.min/Math.max with NaN).                               *)
(***************************************************************************)
EXTENDS Integers, Sequences, FiniteSets, TLC

(***************************************************************************)
(* Number kernel                                                           *)
(***************************************************************************)
\* resolution of the kernel: the code's epsilon 0.001 is one unit
Scale == 10 ^ 3
PInf == 10 ^ 9
NInf == -PInf
NaN == 2 * PInf
MaxFinite == PInf - 1

IsNaN(a) == a = NaN
IsInf(a) == a = PInf \/ a = NInf
IsFinite(a) == a # NaN /\ a # PInf /\ a # NInf

Abs(a) == IF a < 0 THEN -a ELSE a
Sgn(a) == IF a > 0 THEN 1 ELSE IF a < 0 THEN -1 ELSE 0

\* a literal of the source: whole part w and thousandths m (0.8 is Lit(0, 800))
Lit(w, m) == w * Scale + m

FNeg(a) == IF a = NaN THEN NaN ELSE IF a = PInf THEN NInf ELSE IF a = NInf THEN PInf ELSE -a

\* overflow of the finite range gives an infinity, as in IEEE arithmetic
Sat(v) == IF v > MaxFinite THEN PInf ELSE IF v < -MaxFinite THEN NInf ELSE v

FAdd(a, b) ==
    IF a = NaN \/ b = NaN THEN NaN
    ELSE IF IsInf(a) THEN (IF IsInf(b) /\ a # b THEN NaN ELSE a)
    ELSE IF IsInf(b) THEN b
    ELSE Sat(a + b)

FSub(a, b) == FAdd(a, FNeg(b))

\* product of two finite magnitudes, rounded to nearest, without leaving 32 bits
MulMag(x, y) ==
    IF x < 46000 /\ y < 46000 THEN (x * y + Scale \div 2) \div Scale
    ELSE LET xh == x \div Scale
             xl == x % Scale
             yh == y \div Scale
             yl == y % Scale
         IN  IF xh # 0 /\ yh # 0 /\ xh > (MaxFinite \div Scale) \div yh THEN PInf
             ELSE Sat(xh * yh * Scale + xh * yl + xl * yh + (xl * yl + Scale \div 2) \div Scale)

FMul(a, b) ==
    IF a = NaN \/ b = NaN THEN NaN
    ELSE IF IsInf(a) \/ IsInf(b)
         THEN (IF a = 0 \/ b = 0 THEN NaN
               ELSE IF Sgn(a) * Sgn(b) > 0 THEN PInf ELSE NInf)
    ELSE LET m == MulMag(Abs(a), Abs(b))
         IN  IF Sgn(a) * Sgn(b) < 0 THEN FNeg(m) ELSE m

\* quotient of two finite magnitudes (y > 0), rounded to nearest
DivMag(x, y) ==
    IF x < 2000000 THEN (x * Scale + y \div 2) \div y
    ELSE LET q == x \div y
             r == x % y
         IN  IF q > MaxFinite \div Scale THEN PInf
             ELSE IF r < 2000000 THEN Sat(q * Scale + (r * Scale + y \div 2) \div y)
             ELSE Sat(q * Scale + r \div (y \div Scale))

\* the code's zeros are all +0 (no literal or operation of the modelled
\* inputs produces -0), so x/0 takes the sign of x
FDiv(a, b) ==
    IF a = NaN \/ b = NaN THEN NaN
    ELSE IF IsInf(a) THEN (IF IsInf(b) THEN NaN
                           ELSE IF (Sgn(a) > 0) = (b >= 0) THEN PInf ELSE NInf)
    ELSE IF IsInf(b) THEN 0
    ELSE IF b = 0 THEN (IF a = 0 THEN NaN ELSE IF a > 0 THEN PInf ELSE NInf)
    ELSE LET m == DivMag(Abs(a), Abs(b))
         IN  IF Sgn(a) * Sgn(b) < 0 THEN FNeg(m) ELSE m

\* comparisons: every comparison with NaN is false
FLt(a, b) == a # NaN /\ b # NaN /\ a < b
FGt(a, b) == a # NaN /\ b # NaN /\ a > b
FLe(a, b) == a # NaN /\ b # NaN /\ a <= b
FEq(a, b) == a # NaN /\ b # NaN /\ a = b

\* Math.min / Math.max / Math.abs / Math.sign
MathMin(a, b) == IF a = NaN \/ b = NaN THEN NaN ELSE IF a < b THEN a ELSE b
MathMax(a, b) == IF a = NaN \/ b = NaN THEN NaN ELSE IF a > b THEN a ELSE b
MathAbs(a) == IF a = NaN THEN NaN ELSE IF a = NInf THEN PInf ELSE Abs(a)
MathSign(a) == IF a = NaN THEN NaN ELSE Sgn(a) * Scale

RECURSIVE NewtonSqrt(_, _)
NewtonSqrt(n, x) ==
    LET y == (x + n \div x) \div 2
    IN  IF y >= x THEN x ELSE NewtonSqrt(n, y)

\* integer square root (floor) of n >= 0
ISqrt(n) ==
    IF n = 0 THEN 0
    ELSE NewtonSqrt(n, IF n < 10000 THEN 100
                       ELSE IF n < 1000000 THEN 1000
                       ELSE IF n < 100000000 THEN 10000
                       ELSE 46341)

\* Math.sqrt
MathSqrt(a) ==
    IF a = NaN \/ a = NInf THEN NaN
    ELSE IF a = PInf THEN PInf
    ELSE IF a < 0 THEN NaN
    ELSE IF a < 2000000 THEN ISqrt(a * Scale)
    ELSE ISqrt(a \div 10) * 100

\* Math.pow(base, e) for the integer exponents the scenes use
RECURSIVE PowInt(_, _)
PowInt(b, e) == IF e = 0 THEN Scale ELSE FMul(b, PowInt(b, e - 1))

MathPow(b, e) ==
    IF e = 0 THEN Scale
    ELSE IF b = NaN \/ e = NaN THEN NaN
    ELSE PowInt(b, e \div Scale)

\* Math.tan(fovRadians / 2) for the field-of-view angles the scenes use
TanHalfFov(fov) ==
    IF fov = Lit(90, 0) THEN Lit(1, 0)
    ELSE IF fov = Lit(60, 0) THEN Lit(0, 577)
    ELSE IF fov = Lit(120, 0) THEN Lit(1, 732)
    ELSE NaN

(***************************************************************************)
(* Vector3                                                                 *)
(***************************************************************************)
Vec(x, y, z) == [x |-> x, y |-> y, z |-> z]
Col(r, g, b) == [r |-> r, g |-> g, b |-> b]

add(a, b) == Vec(FAdd(a.x, b.x), FAdd(a.y, b.y), FAdd(a.z, b.z))
subtract(a, b) == Vec(FSub(a.x, b.x), FSub(a.y, b.y), FSub(a.z, b.z))
multiply(a, s) == Vec(FMul(a.x, s), FMul(a.y, s), FMul(a.z, s))
dot(a, b) == FAdd(FAdd(FMul(a.x, b.x), FMul(a.y, b.y)), FMul(a.z, b.z))
cross(a, b) ==
    Vec(FSub(FMul(a.y, b.z), FMul(a.z, b.y)),
        FSub(FMul(a.z, b.x), FMul(a.x, b.z)),
        FSub(FMul(a.x, b.y), FMul(a.y, b.x)))
length(a) == MathSqrt(FAdd(FAdd(FMul(a.x, a.x), FMul(a.y, a.y)), FMul(a.z, a.z)))
\* variant: the zero test is left out
divideByLengthUnchecked(a, len) == Vec(FDiv(a.x, len), FDiv(a.y, len), FDiv(a.z, len))

\* the division by the length that closes Vector3.normalize
divideByLength(a, len) ==
    IF len = 0 THEN Vec(0, 0, 0)
    ELSE Vec(FDiv(a.x, len), FDiv(a.y, len), FDiv(a.z, len))
normalize(a) == divideByLength(a, length(a))
\* variant: the normal component is subtracted once
reflectOnce(v, n) == subtract(v, multiply(n, dot(v, n)))

reflect(v, n) == subtract(v, multiply(n, FMul(Lit(2, 0), dot(v, n))))

(***************************************************************************)
(* Intersector.  A hit test whose local constants feed several later       *)
(* statements is written as a chain of operators: each passes the values   *)
(* computed so far to the operator for the statements that follow.         *)
(***************************************************************************)
Material(color, reflectivity, shininess) ==
    [color |-> color, reflectivity |-> reflectivity, shininess |-> shininess]

Ray(origin, direction) == [origin |-> origin, direction |-> direction]

HitInfo(hit, distance, point, normal, material) ==
    [hit |-> hit, distance |-> distance, point |-> point, normal |-> normal,
     material |-> material]

\* the not-found record every hit test returns on a miss
NoHit(material) == HitInfo(FALSE, PInf, Vec(0, 0, 0), Vec(0, 0, 0), material)

NoMaterial == Material(Col(0, 0, 0), 0, 0)

Eps == Lit(0, 1)

\* intersectSphere from `if (t < 0.001)` on: the hit at distance t
sphereHitAt(ray, sphere, t, hitPoint) ==
    IF FLt(t, Eps) THEN NoHit(sphere.material)
    ELSE HitInfo(TRUE, t, hitPoint, normalize(subtract(hitPoint, sphere.center)),
                 sphere.material)

\* variant: no fallback to the larger root
nearRootOnly(t1, t2) == IF FGt(t1, Eps) THEN t1 ELSE Lit(-1, 0)

\* const t = t1 > 0.001 ? t1 : (t2 > 0.001 ? t2 : -1)
nearRoot(t1, t2) == IF FGt(t1, Eps) THEN t1 ELSE IF FGt(t2, Eps) THEN t2 ELSE Lit(-1, 0)

\* intersectSphere once its two roots are known
sphereRoots(ray, sphere, t) ==
    sphereHitAt(ray, sphere, t, add(ray.origin, multiply(ray.direction, t)))

\* intersectSphere from the discriminant test on
sphereSolve(ray, sphere, a, b, discriminant) ==
    IF FLt(discriminant, 0) THEN NoHit(sphere.material)
    ELSE sphereRoots(ray, sphere,
             nearRoot(FDiv(FSub(FNeg(b), MathSqrt(discriminant)), FMul(Lit(2, 0), a)),
                      FDiv(FAdd(FNeg(b), MathSqrt(discriminant)), FMul(Lit(2, 0), a))))

\* intersectSphere once the coefficients of the quadratic are known
sphereQuadratic(ray, sphere, a, b, c) ==
    sphereSolve(ray, sphere, a, b, FSub(FMul(b, b), FMul(FMul(Lit(4, 0), a), c)))

intersectSphere(ray, sphere) ==
    LET rayOrigin == ray.origin
        rayDir == ray.direction
        center == sphere.center
        oc == subtract(rayOrigin, center)
        a == dot(rayDir, rayDir)
        b == FMul(Lit(2, 0), dot(oc, rayDir))
        c == FSub(dot(oc, oc), FMul(sphere.radius, sphere.radius))
    IN  sphereQuadratic(ray, sphere, a, b, c)

\* Math.abs(v) < 0.0001, a threshold below the resolution of the number kernel
BelowParallelEps(v) == IsFinite(v) /\ 10000 * MathMin(Abs(v), 1) < Scale

\* intersectPlane from `if (t < 0.001)` on
planeHitAt(ray, plane, normal, t) ==
    IF FLt(t, Eps) THEN NoHit(plane.material)
    ELSE HitInfo(TRUE, t, add(ray.origin, multiply(ray.direction, t)), normal,
                 plane.material)

\* variant: the parallel test is left out
planeSolveAlways(ray, plane, normal, denom) ==
    planeHitAt(ray, plane, normal,
               FDiv(dot(subtract(plane.point, ray.origin), normal), denom))

\* intersectPlane from the parallel test on
planeSolve(ray, plane, normal, denom) ==
    IF BelowParallelEps(denom) THEN NoHit(plane.material)
    ELSE planeHitAt(ray, plane, normal,
                    FDiv(dot(subtract(plane.point, ray.origin), normal), denom))

\* intersectPlane once the normalized plane normal is known
planeFacing(ray, plane, normal) == planeSolve(ray, plane, normal, dot(normal, ray.direction))

intersectPlane(ray, plane) == planeFacing(ray, plane, normalize(plane.normal))

\* intersectTriangle from `if (t < 0.001)` on
triangleHitAt(ray, triangle, edge1, edge2, t) ==
    IF FLt(t, Eps) THEN NoHit(triangle.material)
    ELSE HitInfo(TRUE, t, add(ray.origin, multiply(ray.direction, t)),
                 normalize(cross(edge1, edge2)), triangle.material)

\* intersectTriangle from the test of v on
triangleSecond(ray, triangle, edge1, edge2, f, u, q, v) ==
    IF FLt(v, 0) \/ FGt(FAdd(u, v), Lit(1, 0)) THEN NoHit(triangle.material)
    ELSE triangleHitAt(ray, triangle, edge1, edge2, FMul(f, dot(edge2, q)))

\* intersectTriangle from the test of u on
triangleFirst(ray, triangle, edge1, edge2, f, s, u) ==
    IF FLt(u, 0) \/ FGt(u, Lit(1, 0)) THEN NoHit(triangle.material)
    ELSE triangleSecond(ray, triangle, edge1, edge2, f, u, cross(s, edge1),
                        FMul(f, dot(ray.direction, cross(s, edge1))))

\* intersectTriangle from `const f = 1.0 / a` on
triangleInside(ray, triangle, edge1, edge2, h, f, s) ==
    triangleFirst(ray, triangle, edge1, edge2, f, s, FMul(f, dot(s, h)))

\* intersectTriangle from the parallel test on
triangleSolve(ray, triangle, edge1, edge2, h, a) ==
    IF BelowParallelEps(a) THEN NoHit(triangle.material)
    ELSE triangleInside(ray, triangle, edge1, edge2, h, FDiv(Lit(1, 0), a),
                        subtract(ray.origin, triangle.v0))

\* intersectTriangle once h is known
triangleDet(ray, triangle, edge1, edge2, h) ==
    triangleSolve(ray, triangle, edge1, edge2, h, dot(edge1, h))

\* intersectTriangle once the two edges are known
triangleEdges(ray, triangle, edge1, edge2) ==
    triangleDet(ray, triangle, edge1, edge2, cross(ray.direction, edge2))

intersectTriangle(ray, triangle) ==
    LET v0 == triangle.v0
        v1 == triangle.v1
        v2 == triangle.v2
    IN  triangleEdges(ray, triangle, subtract(v1, v0), subtract(v2, v0))

\* Math.abs(q) > 1.0001 (bias), a threshold between two representable values
AboveBias(q) == q # NaN /\ (IsInf(q) \/ 10000 * MathMin(Abs(q), 2 * Scale) > 10001 * Scale)

\* the face normal intersectBox chooses from p and d
boxNormal(p, d) ==
    IF AboveBias(FDiv(p.x, d.x)) THEN Vec(MathSign(p.x), 0, 0)
    ELSE IF AboveBias(FDiv(p.y, d.y)) THEN Vec(0, MathSign(p.y), 0)
    ELSE IF AboveBias(FDiv(p.z, d.z)) THEN Vec(0, 0, MathSign(p.z))
    ELSE Vec(MathSign(p.x), 0, 0)

\* variant: d is the whole offset from the centre to min, the half-extent
boxFaceHalfExtent(box, t, hitPoint, center) ==
    HitInfo(TRUE, t, hitPoint,
            boxNormal(subtract(hitPoint, center), subtract(box.min, center)),
            box.material)

\* intersectBox once the hit point and the centre of the box are known
boxFace(box, t, hitPoint, center) ==
    HitInfo(TRUE, t, hitPoint,
            boxNormal(subtract(hitPoint, center),
                      multiply(subtract(box.min, center), Lit(0, 500))),
            box.material)

\* variant: a ray that starts inside the box hits it where it leaves
boxSolveFromInside(ray, box, tmin, tmax) ==
    IF FLt(tmax, 0) \/ FGt(tmin, tmax) THEN NoHit(box.material)
    ELSE IF FLt(tmin, Eps)
         THEN IF FLt(tmax, Eps) THEN NoHit(box.material)
              ELSE boxFace(box, tmax, add(ray.origin, multiply(ray.direction, tmax)),
                           multiply(add(box.min, box.max), Lit(0, 500)))
         ELSE boxFace(box, tmin, add(ray.origin, multiply(ray.direction, tmin)),
                      multiply(add(box.min, box.max), Lit(0, 500)))

\* intersectBox from the slab test on
boxSolve(ray, box, tmin, tmax) ==
    IF FLt(tmax, 0) \/ FGt(tmin, tmax) \/ FLt(tmin, Eps) THEN NoHit(box.material)
    ELSE boxFace(box, tmin, add(ray.origin, multiply(ray.direction, tmin)),
                 multiply(add(box.min, box.max), Lit(0, 500)))

\* intersectBox once the six slab distances are known
boxSlabs(ray, box, t1, t2, t3, t4, t5, t6) ==
    boxSolve(ray, box,
             MathMax(MathMax(MathMin(t1, t2), MathMin(t3, t4)), MathMin(t5, t6)),
             MathMin(MathMin(MathMax(t1, t2), MathMax(t3, t4)), MathMax(t5, t6)))

\* (bound - origin) * (1.0 / dir), one slab distance of intersectBox
slab(bound, origin, dir) == FMul(FSub(bound, origin), FDiv(Lit(1, 0), dir))

intersectBox(ray, box) ==
    LET rayOrigin == ray.origin
        rayDir == ray.direction
        min == box.min
        max == box.max
    IN  boxSlabs(ray, box,
                 slab(min.x, rayOrigin.x, rayDir.x), slab(max.x, rayOrigin.x, rayDir.x),
                 slab(min.y, rayOrigin.y, rayDir.y), slab(max.y, rayOrigin.y, rayDir.y),
                 slab(min.z, rayOrigin.z, rayDir.z), slab(max.z, rayOrigin.z, rayDir.z))

\* variant: the default branch of the type switch tests the primitive as a
\* sphere
intersectObjectAnyShape(ray, obj) ==
    IF obj.type = "sphere" THEN intersectSphere(ray, obj)
    ELSE IF obj.type = "plane" THEN intersectPlane(ray, obj)
    ELSE IF obj.type = "triangle" THEN intersectTriangle(ray, obj)
    ELSE IF obj.type = "box" THEN intersectBox(ray, obj)
    ELSE intersectSphere(ray, obj)

\* impl selects the class whose code runs: "core" (src/core/Raytracer.ts),
\* "main" (src/main.ts) or "worker" (WorkerRaytracer).  The type switch of
\* src/core/Raytracer.ts and of the worker: four primitives
intersectObject(ray, obj) ==
    IF obj.type = "sphere" THEN intersectSphere(ray, obj)
    ELSE IF obj.type = "plane" THEN intersectPlane(ray, obj)
    ELSE IF obj.type = "triangle" THEN intersectTriangle(ray, obj)
    ELSE IF obj.type = "box" THEN intersectBox(ray, obj)
    ELSE NoHit(NoMaterial)

\* the type switch of the Raytracer class bundled in src/main.ts: two primitives
intersectObjectMain(ray, obj) ==
    IF obj.type = "sphere" THEN intersectSphere(ray, obj)
    ELSE IF obj.type = "plane" THEN intersectPlane(ray, obj)
    ELSE NoHit(NoMaterial)

Intersect(impl, ray, obj) ==
    IF impl = "main" THEN intersectObjectMain(ray, obj) ELSE intersectObject(ray, obj)

\* variant: a hit at the same distance replaces the one kept so far
closerOrEqual(hit, closestHit) ==
    IF hit.hit /\ FLe(hit.distance, closestHit.distance) THEN hit ELSE closestHit

\* if (hit.hit && hit.distance < closestHit.distance) closestHit = hit
closer(hit, closestHit) ==
    IF hit.hit /\ FLt(hit.distance, closestHit.distance) THEN hit ELSE closestHit

RECURSIVE ClosestFrom(_, _, _, _, _)
ClosestFrom(impl, ray, objects, i, closestHit) ==
    IF i > Len(objects) THEN closestHit
    ELSE ClosestFrom(impl, ray, objects, i + 1,
                     closer(Intersect(impl, ray, objects[i]), closestHit))

findClosestIntersection(impl, scene, ray) ==
    ClosestFrom(impl, ray, scene.objects, 1, NoHit(NoMaterial))

(***************************************************************************)
(* Shader                                                                  *)
(***************************************************************************)
\* the colour calculateLighting returns for an unshadowed point
phong(hit, light, diffuse, specular, intensity) ==
    Col(FMul(FMul(FAdd(FMul(hit.material.color.r, diffuse), specular), light.color.r), intensity),
        FMul(FMul(FAdd(FMul(hit.material.color.g, diffuse), specular), light.color.g), intensity),
        FMul(FMul(FAdd(FMul(hit.material.color.b, diffuse), specular), light.color.b), intensity))

\* 1 / (1 + 0.1 * distance + 0.01 * distance * distance)
attenuationAt(distance) ==
    FDiv(Lit(1, 0),
         FAdd(FAdd(Lit(1, 0), FMul(Lit(0, 100), distance)),
              FMul(FMul(Lit(0, 10), distance), distance)))

\* variant: the shadow test is left out
lightEvenIfShadowed(hit, light, ray, lightDir, distance, shadowHit) ==
    LET normal == hit.normal
        viewDir == normalize(multiply(ray.direction, Lit(-1, 0)))
        reflectDir == normalize(reflect(multiply(lightDir, Lit(-1, 0)), normal))
    IN  phong(hit, light,
              MathMax(0, dot(normal, lightDir)),
              MathPow(MathMax(0, dot(viewDir, reflectDir)), hit.material.shininess),
              FMul(light.intensity, attenuationAt(distance)))

\* calculateLighting from the shadow test on
lightUnlessShadowed(hit, light, ray, lightDir, distance, shadowHit) ==
    IF shadowHit.hit /\ FLt(shadowHit.distance, distance) THEN Col(0, 0, 0)
    ELSE LET normal == hit.normal
             viewDir == normalize(multiply(ray.direction, Lit(-1, 0)))
             reflectDir == normalize(reflect(multiply(lightDir, Lit(-1, 0)), normal))
         IN  phong(hit, light,
                   MathMax(0, dot(normal, lightDir)),
                   MathPow(MathMax(0, dot(viewDir, reflectDir)), hit.material.shininess),
                   FMul(light.intensity, attenuationAt(distance)))

\* calculateLighting once lightDir and distance are known
lightAlong(impl, scene, hit, light, ray, lightDir, distance) ==
    lightUnlessShadowed(hit, light, ray, lightDir, distance,
        findClosestIntersection(impl, scene,
            Ray(add(hit.point, multiply(hit.normal, Lit(0, 1))), lightDir)))

calculateLighting(impl, scene, hit, light, ray) ==
    LET hitPoint == hit.point
        lightPos == light.position
    IN  lightAlong(impl, scene, hit, light, ray,
                   normalize(subtract(lightPos, hitPoint)),
                   length(subtract(lightPos, hitPoint)))

\* color.r += lightColor.r; color.g += lightColor.g; color.b += lightColor.b
addLight(color, lightColor) ==
    Col(FAdd(color.r, lightColor.r), FAdd(color.g, lightColor.g), FAdd(color.b, lightColor.b))

\* the loop over scene.lights of traceRay
RECURSIVE SumLights(_, _, _, _, _, _)
SumLights(impl, scene, hit, ray, i, color) ==
    IF i > Len(scene.lights) THEN color
    ELSE SumLights(impl, scene, hit, ray, i + 1,
                   addLight(color, calculateLighting(impl, scene, hit, scene.lights[i], ray)))

\* color = color * (1 - reflectivity) + reflectedColor * reflectivity, per channel
mixReflection(color, reflectedColor, reflectivity) ==
    Col(FAdd(FMul(color.r, FSub(Lit(1, 0), reflectivity)), FMul(reflectedColor.r, reflectivity)),
        FAdd(FMul(color.g, FSub(Lit(1, 0), reflectivity)), FMul(reflectedColor.g, reflectivity)),
        FAdd(FMul(color.b, FSub(Lit(1, 0), reflectivity)), FMul(reflectedColor.b, reflectivity)))

RECURSIVE traceRay(_, _, _, _)

\* variant: without a recursive call the local colour is still scaled by
\* 1 - reflectivity
reflectFromScaled(impl, scene, ray, depth, hit, color) ==
    IF FGt(hit.material.reflectivity, 0) /\ depth > 1
    THEN mixReflection(color,
             traceRay(impl, scene,
                      Ray(hit.point, normalize(reflect(ray.direction, hit.normal))),
                      depth - 1),
             hit.material.reflectivity)
    ELSE mixReflection(color, Col(0, 0, 0), hit.material.reflectivity)

\* traceRay from the reflection test on
reflectFrom(impl, scene, ray, depth, hit, color) ==
    IF FGt(hit.material.reflectivity, 0) /\ depth > 1
    THEN mixReflection(color,
             traceRay(impl, scene,
                      Ray(hit.point, normalize(reflect(ray.direction, hit.normal))),
                      depth - 1),
             hit.material.reflectivity)
    ELSE color

\* variant: a miss is shaded like a surface without light
shadeHitDarkMiss(impl, scene, ray, depth, hit) ==
    IF ~hit.hit THEN Col(0, 0, 0)
    ELSE reflectFrom(impl, scene, ray, depth, hit,
                     SumLights(impl, scene, hit, ray, 1, Col(0, 0, 0)))

\* traceRay once the closest hit is known
shadeHit(impl, scene, ray, depth, hit) ==
    IF ~hit.hit THEN scene.backgroundColor
    ELSE reflectFrom(impl, scene, ray, depth, hit,
                     SumLights(impl, scene, hit, ray, 1, Col(0, 0, 0)))

\* variant: the depth test lets depth 0 through
traceRayBelowZero(impl, scene, ray, depth) ==
    IF depth < 0 THEN Col(0, 0, 0)
    ELSE shadeHit(impl, scene, ray, depth, findClosestIntersection(impl, scene, ray))

\* variant: the intersection test comes first, and a ray that hits nothing
\* gets the background colour at every depth
traceRayMissFirst(impl, scene, ray, depth) ==
    IF depth <= 0 /\ findClosestIntersection(impl, scene, ray).hit THEN Col(0, 0, 0)
    ELSE shadeHit(impl, scene, ray, depth, findClosestIntersection(impl, scene, ray))

traceRay(impl, scene, ray, depth) ==
    IF depth <= 0 THEN Col(0, 0, 0)
    ELSE shadeHit(impl, scene, ray, depth, findClosestIntersection(impl, scene, ray))

RECURSIVE traceRayCalls(_, _, _, _)

\* the calls of traceRay made from the reflection test on, this call included
callsFrom(impl, scene, ray, depth, hit) ==
    IF hit.hit /\ FGt(hit.material.reflectivity, 0) /\ depth > 1
    THEN 1 + traceRayCalls(impl, scene,
                           Ray(hit.point, normalize(reflect(ray.direction, hit.normal))),
                           depth - 1)
    ELSE 1

\* how many times traceRay is entered by the call traceRay(ray, depth)
traceRayCalls(impl, scene, ray, depth) ==
    IF depth <= 0 THEN 1
    ELSE callsFrom(impl, scene, ray, depth, findClosestIntersection(impl, scene, ray))

RECURSIVE traceRayDepths(_, _, _, _)

\* variant: the recursive call is made for depth 1 as well
depthsFromOne(impl, scene, ray, depth, hit) ==
    IF hit.hit /\ FGt(hit.material.reflectivity, 0) /\ depth >= 1
    THEN <<depth>> \o traceRayDepths(impl, scene,
                                     Ray(hit.point, normalize(reflect(ray.direction, hit.normal))),
                                     depth - 1)
    ELSE <<depth>>

\* the depths of the entries of traceRay from the reflection test on, this
\* entry first
depthsFrom(impl, scene, ray, depth, hit) ==
    IF hit.hit /\ FGt(hit.material.reflectivity, 0) /\ depth > 1
    THEN <<depth>> \o traceRayDepths(impl, scene,
                                     Ray(hit.point, normalize(reflect(ray.direction, hit.normal))),
                                     depth - 1)
    ELSE <<depth>>

\* the depth argument of every entry of traceRay the call traceRay(ray, depth)
\* leads to, in the order of the entries
traceRayDepths(impl, scene, ray, depth) ==
    IF depth <= 0 THEN <<depth>>
    ELSE depthsFrom(impl, scene, ray, depth, findClosestIntersection(impl, scene, ray))

(***************************************************************************)
(* Camera rays and pixels                                                  *)
(***************************************************************************)
\* getRay once forward and right are known
rayAlong(scene, cameraX, cameraY, forward, right) ==
    Ray(scene.camera.position,
        normalize(add(add(forward, multiply(right, cameraX)),
                      multiply(normalize(cross(right, forward)), cameraY))))

\* variant: the camera basis is built on (1, 0, 0) as the up vector
rayFromSidewaysUp(scene, cameraX, cameraY, forward) ==
    rayAlong(scene, cameraX, cameraY, forward,
             normalize(cross(forward, Vec(Lit(1, 0), 0, 0))))

\* getRay once forward is known
rayFrom(scene, cameraX, cameraY, forward) ==
    rayAlong(scene, cameraX, cameraY, forward,
             normalize(cross(forward, Vec(0, Lit(1, 0), 0))))

getRay(scene, width, height, x, y) ==
    LET aspectRatio == FDiv(Lit(width, 0), Lit(height, 0))
        tanHalf == TanHalfFov(scene.camera.fov)
        ndcX == FDiv(Lit(x, 500), Lit(width, 0))
        ndcY == FDiv(Lit(y, 500), Lit(height, 0))
        screenX == FSub(FMul(Lit(2, 0), ndcX), Lit(1, 0))
        screenY == FSub(Lit(1, 0), FMul(Lit(2, 0), ndcY))
        cameraX == FMul(FMul(screenX, aspectRatio), tanHalf)
        cameraY == FMul(screenY, tanHalf)
        cameraPos == scene.camera.position
        target == scene.camera.target
    IN  rayFrom(scene, cameraX, cameraY, normalize(subtract(target, cameraPos)))

\* storing a number into a Uint8ClampedArray element: NaN becomes 0, the value
\* is clamped to [0, 255] and rounded to the nearest integer, ties to even
ToUint8Clamp(v) ==
    IF v = NaN THEN 0
    ELSE IF v <= 0 THEN 0
    ELSE IF v >= Lit(255, 0) THEN 255
    ELSE LET w == v \div Scale
             f == v % Scale
         IN  IF 2 * f < Scale THEN w
             ELSE IF 2 * f > Scale THEN w + 1
             ELSE IF w % 2 = 0 THEN w ELSE w + 1

\* variant: the store drops the fraction instead of rounding
ChannelByteTruncated(channel) ==
    IF MathMin(Lit(255, 0), MathMax(0, FMul(channel, Lit(255, 0)))) = NaN THEN 0
    ELSE MathMin(Lit(255, 0), MathMax(0, FMul(channel, Lit(255, 0)))) \div Scale

\* Math.min(255, Math.max(0, channel * 255)) as stored in the pixel array
ChannelByte(channel) ==
    ToUint8Clamp(MathMin(Lit(255, 0), MathMax(0, FMul(channel, Lit(255, 0)))))

\* the four bytes stored for a traced colour
colorBytes(color) == <<ChannelByte(color.r), ChannelByte(color.g), ChannelByte(color.b), 255>>

\* the four bytes the inner loop body writes for pixel (x, y)
PixelBytes(impl, scene, width, height, maxDepth, x, y) ==
    colorBytes(traceRay(impl, scene, getRay(scene, width, height, x, y), maxDepth))

(***************************************************************************)
(* Scenes the loader can hand to the core                                  *)
(***************************************************************************)
White == Col(Lit(1, 0), Lit(1, 0), Lit(1, 0))

Camera == [position |-> Vec(0, Lit(1, 0), Lit(5, 0)), target |-> Vec(0, 0, 0), fov |-> Lit(90, 0)]

Lamp == [position |-> Vec(Lit(5, 0), Lit(5, 0), Lit(5, 0)), color |-> White, intensity |-> Lit(1, 0)]

RedSphere ==
    [type |-> "sphere", center |-> Vec(0, 0, 0), radius |-> Lit(1, 0),
     material |-> Material(Col(Lit(1, 0), Lit(0, 200), Lit(0, 200)), Lit(0, 300), Lit(2, 0))]

Floor ==
    [type |-> "plane", point |-> Vec(0, Lit(-1, -500), 0), normal |-> Vec(0, Lit(1, 0), 0),
     material |-> Material(Col(Lit(0, 800), Lit(0, 800), Lit(0, 800)), Lit(0, 100), Lit(2, 0))]

BlueBox ==
    [type |-> "box", min |-> Vec(Lit(-1, 0), Lit(-1, 0), Lit(-1, 0)),
     max |-> Vec(Lit(1, 0), Lit(1, 0), Lit(1, 0)),
     material |-> Material(Col(Lit(0, 200), Lit(0, 200), Lit(1, 0)), 0, Lit(2, 0))]

YellowTriangle ==
    [type |-> "triangle", v0 |-> Vec(Lit(-3, 0), Lit(1, 0), Lit(-1, 0)),
     v1 |-> Vec(Lit(3, 0), Lit(1, 0), Lit(-1, 0)), v2 |-> Vec(0, Lit(4, 0), Lit(-1, 0)),
     material |-> Material(Col(Lit(1, 0), Lit(1, 0), 0), Lit(0, 500), Lit(2, 0))]

\* this.scene holds a reference; the model holds the name of the scene value
SceneIds == {"spheres", "boxes"}

SceneOf(id) ==
    IF id = "spheres"
    THEN [camera |-> Camera, lights |-> <<Lamp>>, objects |-> <<RedSphere, Floor>>,
          backgroundColor |-> Col(Lit(0, 100), Lit(0, 100), Lit(0, 200))]
    ELSE [camera |-> Camera, lights |-> <<Lamp>>,
          objects |-> <<BlueBox, YellowTriangle, Floor>>,
          backgroundColor |-> Col(Lit(0, 300), Lit(0, 100), Lit(0, 100))]

(***************************************************************************)
(* Bounds                                                                  *)
(***************************************************************************)
\* tallest canvas of the sequential renders (one row past the second yield)
MaxHeight == 52
\* largest maxDepth handed to setMaxDepth / a worker request
MaxDepth == 2
\* widest image
MaxWidth == 2
\* most rows of an image rendered in parallel
MaxRows == 2
\* most workers (and bands) of a parallel render
MaxWorkers == 2
\* most requests posted to one worker in a run of the worker protocol
MaxRequests == 2

\* program constants of Raytracer.render and the Raytracer constructor
ProgressEvery == 10
YieldEvery == 50
DefaultMaxDepth == 5

Depths == 0..MaxDepth
Widths == 1..MaxWidth
Impls == {"core", "main"}

(***************************************************************************)
(* Pixel buffers (Uint8ClampedArray / ImageData.data)                      *)
(***************************************************************************)
\* data: the bytes; writes: how often each byte was stored to; stray: the
\* indices stored to outside the array (a typed array ignores such a store)
NewBuffer(n) ==
    [data |-> [i \in 0..(n - 1) |-> 0], writes |-> [i \in 0..(n - 1) |-> 0], stray |-> {}]

\* one store `array[index] = value` of a loop body
StoreOp(index, value) == [index |-> index, value |-> value]

\* the buffer after the stores of the sequence `ops`, made in order
StoreAll(buf, ops) ==
    LET At(i) == {k \in DOMAIN ops : ops[k].index = i}
        Last(S) == CHOOSE k \in S : \A q \in S : q <= k
    IN  [data |-> [i \in DOMAIN buf.data |->
                      IF At(i) = {} THEN buf.data[i] ELSE ops[Last(At(i))].value],
         writes |-> [i \in DOMAIN buf.writes |-> buf.writes[i] + Cardinality(At(i))],
         stray |-> buf.stray \cup {ops[k].index : k \in {q \in DOMAIN ops :
                                                        ops[q].index \notin DOMAIN buf.data}}]

\* the elements of a finite set of integers in increasing order
Ascending(S) ==
    [k \in 1..Cardinality(S) |-> CHOOSE r \in S : Cardinality({q \in S : q < r}) = k - 1]

(***************************************************************************)
(* State                                                                   *)
(***************************************************************************)
VARIABLES
    impl,        \* the Raytracer class the page runs: "core" or "main"
    scene,       \* Raytracer.scene: "undefined" or the name of a scene
    maxDepth,    \* Raytracer.maxDepth
    width,       \* Raytracer.width  (canvas.width at construction)
    height,      \* Raytracer.height (canvas.height at construction)
    pc,          \* the render call: "idle", "suspended", "done" or "failed"
    y,           \* the row the suspended render continues with
    hasCb,       \* whether the render call was given a progress callback
    image,       \* imageData of the render call (a buffer), or <<>> before createImageData
    canvas,      \* the bytes putImageData presented, <<>> while nothing was presented
    traced,      \* history: per processed row, the scene and maxDepth it was traced with
    log,         \* history: rows traced, progress callback calls, yields, presentation, in order
    error,       \* message of the error Raytracer.render threw, "" if none
    appState,    \* promise of RaytracerApp.render: "none", "pending", "resolved", "rejected"
    appError,    \* the error RaytracerApp.render rejected with, "" if none
    pc2,         \* a render call made while the first is suspended: "idle", "suspended", "done"
    y2,          \* the row that call continues with
    hasCb2,      \* whether that call was given a progress callback
    image2,      \* imageData of that call, or <<>> before createImageData
    presented,   \* history: the calls whose putImageData ran (1 or 2), in order
    wfields,     \* per worker: the fields scene, width, height, maxDepth of its workerRaytracer
    inbox,       \* per worker: the requests posted to it and not yet handled
    received,    \* history, per worker: the requests onmessage handled, in order
    posted,      \* history, per worker: the responses it posted, in order
    stores,      \* history, per worker and request: the stores render made
    channel,     \* responses on their way to the dispatcher
    job,         \* the parallel render in progress: <<>> or <<its request>>
    full,        \* the dispatcher's full-image buffer
    merged,      \* history: the workers whose response the dispatcher merged, in order
    fn,          \* the function of the engine called on its own, "none" if none
    args,        \* the arguments of that call
    ret,         \* the value the call returned, <<>> before it returns
    returned     \* whether the call has returned

seqVars == <<impl, scene, maxDepth, width, height, pc, y, hasCb, image, canvas,
             traced, log, error, appState, appError, pc2, y2, hasCb2, image2, presented>>
workerVars == <<wfields, inbox, received, posted, stores, channel>>
dispatchVars == <<job, full, merged>>
kernelVars == <<fn, args, ret, returned>>
vars == <<seqVars, workerVars, dispatchVars, kernelVars>>

(***************************************************************************)
(* Raytracer (sequential render)                                           *)
(***************************************************************************)
Event(ev, val) == [ev |-> ev, val |-> val]

\* mutant: the progress of the row after the reported one
ProgressAhead(row, h) == FMul(FDiv(Lit(row + ProgressEvery, 0), Lit(h, 0)), Lit(100, 0))

\* (y / this.height) * 100
Progress(row, h) == FMul(FDiv(Lit(row, 0), Lit(h, 0)), Lit(100, 0))

\* mutant: the row stride is dropped from the index
SeqIndexNoWidth(yy, x) == (yy + x) * 4

\* index = (y * this.width + x) * 4
SeqIndex(yy, x) == (yy * width + x) * 4

\* the inner loop of Raytracer.render: the stores of row yy, in order
RenderRowSeq(yy) ==
    LET px == [x \in 0..(width - 1) |->
                  PixelBytes(impl, SceneOf(scene), width, height, maxDepth, x, yy)]
    IN  [k \in 1..(4 * width) |->
            StoreOp(SeqIndex(yy, (k - 1) \div 4) + ((k - 1) % 4), px[(k - 1) \div 4][((k - 1) % 4) + 1])]

\* whether render yields after row yy (it does so inside the progress branch)
YieldsAfter(yy, cb) == cb /\ yy % ProgressEvery = 0 /\ yy % YieldEvery = 0

\* the last row the loop processes when it runs on from row yy: the first
\* row it yields after, or the last row of the image
LastRowFrom(yy, cb) ==
    LET stops == {r \in yy..(height - 1) : YieldsAfter(r, cb)}
    IN  IF stops = {} THEN height - 1 ELSE CHOOSE r \in stops : \A q \in stops : r <= q

\* the state render leaves when it has stored rows yy..last into img; st is
\* [pc, y, image, traced, log, canvas]
RowsDone(yy, last, cb, st, img) ==
    LET trc == st.traced \o [k \in 1..(last - yy + 1) |->
                                [y |-> yy + k - 1, scene |-> scene, maxDepth |-> maxDepth]]
        yields == yy <= last /\ YieldsAfter(last, cb)
        \* the body of the loop for row r: trace the row, then report, then yield
        keys == {3 * r : r \in yy..last}
                \cup {3 * r + 1 : r \in {q \in yy..last : cb /\ q % ProgressEvery = 0}}
                \cup {3 * r + 2 : r \in {q \in yy..last : q = last /\ yields}}
        order == Ascending(keys)
        lg == st.log \o [k \in 1..Len(order) |->
                            IF order[k] % 3 = 0 THEN Event("row", order[k] \div 3)
                            ELSE IF order[k] % 3 = 1
                                 THEN Event("progress", Progress(order[k] \div 3, height))
                                 ELSE Event("yield", order[k] \div 3)]
    IN  IF yields
        THEN [pc |-> "suspended", y |-> last + 1, image |-> img, traced |-> trc,
              log |-> lg, canvas |-> st.canvas]
        ELSE [pc |-> "done", y |-> IF yy > last THEN yy ELSE last + 1, image |-> img, traced |-> trc,
              log |-> IF cb THEN lg \o <<Event("present", 0), Event("progress", Lit(100, 0))>>
                      ELSE lg \o <<Event("present", 0)>>,
              canvas |-> img.data]

\* the stores of rows yy..last of Raytracer.render, in order
RenderRowsSeq(yy, last, rows) ==
    [k \in 1..((last - yy + 1) * 4 * width) |->
        rows[yy + (k - 1) \div (4 * width)][((k - 1) % (4 * width)) + 1]]

\* variant: a render that was suspended is cancelled when it resumes and
\* returns without tracing the rows left
RunRowsAbandoned(yy, cb, st) ==
    IF yy > 0 THEN RowsDone(yy, yy - 1, cb, st, st.image)
    ELSE LET last == LastRowFrom(yy, cb)
         IN  RowsDone(yy, last, cb, st,
                      StoreAll(st.image,
                               RenderRowsSeq(yy, last, [r \in yy..last |-> RenderRowSeq(r)])))

\* the row loop of Raytracer.render from row yy up to its next await or its
\* return
RunRows(yy, cb, st) ==
    LET last == LastRowFrom(yy, cb)
    IN  RowsDone(yy, last, cb, st,
                 StoreAll(st.image,
                          RenderRowsSeq(yy, last, [r \in yy..last |-> RenderRowSeq(r)])))

Apply(st) ==
    /\ pc' = st.pc
    /\ y' = st.y
    /\ image' = st.image
    /\ traced' = st.traced
    /\ log' = st.log
    /\ canvas' = st.canvas

\* Raytracer.loadScene
LoadScene(s) ==
    /\ scene' = s
    /\ UNCHANGED <<impl, maxDepth, width, height, pc, y, hasCb, image, canvas,
                   traced, log, error, appState, appError, pc2, y2, hasCb2, image2, presented,
                   workerVars, dispatchVars, kernelVars>>

\* Raytracer.setMaxDepth (RaytracerApp.setMaxDepth forwards to it)
SetMaxDepth(d) ==
    /\ maxDepth' = d
    /\ UNCHANGED <<impl, scene, width, height, pc, y, hasCb, image, canvas,
                   traced, log, error, appState, appError, pc2, y2, hasCb2, image2, presented,
                   workerVars, dispatchVars, kernelVars>>

\* mutant: the guard of render is dropped
SceneLoadedAlways == TRUE

\* the guard `if (!this.scene)` of render, negated
SceneLoaded == scene # "undefined"

\* RaytracerApp.render -> Raytracer.render up to its first await, its return
\* or its throw
StartRender(cb) ==
    /\ pc \in {"idle", "failed"}
    /\ hasCb' = cb
    /\ IF ~SceneLoaded
       THEN /\ pc' = "failed"
            /\ error' = "No scene loaded"
            /\ appState' = "rejected"
            /\ appError' = "No scene loaded"
            /\ UNCHANGED <<y, image, traced, log, canvas, presented>>
       ELSE /\ Apply(RunRows(0, cb, [pc |-> "idle", y |-> 0,
                                    image |-> NewBuffer(width * height * 4),
                                    traced |-> <<>>, log |-> <<>>, canvas |-> canvas]))
            /\ error' = ""
            /\ appError' = ""
            /\ appState' = IF pc' = "done" THEN "resolved" ELSE "pending"
            /\ presented' = IF pc' = "done" THEN presented \o <<1>> ELSE presented
    /\ UNCHANGED <<impl, scene, maxDepth, width, height, pc2, y2, hasCb2, image2,
                   workerVars, dispatchVars, kernelVars>>

\* the timer of `await new Promise(resolve => setTimeout(resolve, 1))` fires
Resume ==
    /\ pc = "suspended"
    /\ Apply(RunRows(y, hasCb, [pc |-> pc, y |-> y, image |-> image, traced |-> traced,
                                log |-> log, canvas |-> canvas]))
    /\ appState' = IF pc' = "done" THEN "resolved" ELSE "pending"
    /\ presented' = IF pc' = "done" THEN presented \o <<1>> ELSE presented
    /\ UNCHANGED <<impl, scene, maxDepth, width, height, hasCb, error, appError,
                   pc2, y2, hasCb2, image2, workerVars, dispatchVars, kernelVars>>

\* variant: the Raytracer keeps one imageData, which a call made during
\* another goes on storing into
createImageDataKept(n) == IF image = <<>> THEN NewBuffer(n) ELSE image

\* this.ctx.createImageData(this.width, this.height): a buffer of its own for
\* the call, all zero
createImageData(n) == NewBuffer(n)

\* the state of the second call after a run of its row loop
ApplyOverlapping(st) ==
    /\ pc2' = st.pc
    /\ y2' = st.y
    /\ image2' = st.image
    /\ canvas' = st.canvas
    /\ presented' = IF st.pc = "done" THEN presented \o <<2>> ELSE presented

\* Raytracer.render called again while the first call waits for its timer:
\* the call up to its first await or its return
StartOverlapping(cb) ==
    /\ pc = "suspended"
    /\ pc2 = "idle"
    /\ hasCb2' = cb
    /\ ApplyOverlapping(RunRows(0, cb, [pc |-> "idle", y |-> 0,
                                        image |-> createImageData(width * height * 4),
                                        traced |-> <<>>, log |-> <<>>, canvas |-> canvas]))
    /\ UNCHANGED <<impl, scene, maxDepth, width, height, pc, y, hasCb, image, traced, log,
                   error, appState, appError, workerVars, dispatchVars, kernelVars>>

\* the timer of the second call fires
ResumeOverlapping ==
    /\ pc2 = "suspended"
    /\ ApplyOverlapping(RunRows(y2, hasCb2, [pc |-> pc2, y |-> y2, image |-> image2,
                                             traced |-> <<>>, log |-> <<>>, canvas |-> canvas]))
    /\ UNCHANGED <<impl, scene, maxDepth, width, height, pc, y, hasCb, image, traced, log,
                   error, appState, appError, hasCb2, workerVars, dispatchVars, kernelVars>>

(***************************************************************************)
(* WorkerRaytracer and the worker's message handler                        *)
(***************************************************************************)
Workers == 1..MaxWorkers

WorkerMessage(s, w, h, startRow, endRow, d) ==
    [scene |-> s, width |-> w, height |-> h, startRow |-> startRow, endRow |-> endRow,
     maxDepth |-> d]

WorkerResponse(startRow, endRow, pixels) ==
    [startRow |-> startRow, endRow |-> endRow, pixels |-> pixels]

NoFields == [scene |-> "undefined", width |-> 0, height |-> 0, maxDepth |-> 0]

\* mutant: the scene is kept from the first request the instance served
AssignFieldsOnce(fields, data) ==
    [scene |-> IF fields.scene = "undefined" THEN data.scene ELSE fields.scene,
     width |-> data.width, height |-> data.height, maxDepth |-> data.maxDepth]

\* the four assignments that open WorkerRaytracer.render
AssignFields(fields, data) ==
    [scene |-> data.scene, width |-> data.width, height |-> data.height,
     maxDepth |-> data.maxDepth]

\* mutant: the image row, not the band-local row, indexes the band's buffer
WorkerIndexGlobal(f, data, yy, x) == (yy * f.width + x) * 4

\* index = (localY * this.width + x) * 4, localY = y - data.startRow
WorkerIndex(f, data, yy, x) == ((yy - data.startRow) * f.width + x) * 4

\* the inner loop of WorkerRaytracer.render: the stores of row yy, in order
RenderRowWorker(f, data, yy) ==
    LET px == [x \in 0..(f.width - 1) |->
                  PixelBytes("worker", SceneOf(f.scene), f.width, f.height, f.maxDepth, x, yy)]
    IN  [k \in 1..(4 * f.width) |->
            StoreOp(WorkerIndex(f, data, yy, (k - 1) \div 4) + ((k - 1) % 4),
                    px[(k - 1) \div 4][((k - 1) % 4) + 1])]

\* mutant: the row loop runs one row past endRow
RenderBandInclusive(f, data) ==
    LET rows == [r \in data.startRow..data.endRow |-> RenderRowWorker(f, data, r)]
    IN  [k \in 1..((data.endRow - data.startRow + 1) * 4 * f.width) |->
            rows[data.startRow + (k - 1) \div (4 * f.width)][((k - 1) % (4 * f.width)) + 1]]

\* the row loop of WorkerRaytracer.render: the stores of rows startRow..endRow-1
RenderBand(f, data) ==
    LET rows == [r \in data.startRow..(data.endRow - 1) |-> RenderRowWorker(f, data, r)]
    IN  [k \in 1..((data.endRow - data.startRow) * 4 * f.width) |->
            rows[data.startRow + (k - 1) \div (4 * f.width)][((k - 1) % (4 * f.width)) + 1]]

\* mutant: the response does not carry the band's position
MakeResponseUntagged(data, pixels) == WorkerResponse(0, data.endRow - data.startRow, pixels)

\* the response WorkerRaytracer.render returns
MakeResponse(data, pixels) == WorkerResponse(data.startRow, data.endRow, pixels)

\* what WorkerRaytracer.render leaves: the fields f, the response built
\* from the filled buffer buf and the stores it made
Rendered(f, data, buf) ==
    [fields |-> f,
     response |-> MakeResponse(data, buf.data),
     stores |-> [fields |-> {"scene", "width", "height", "maxDepth"},
                 writes |-> buf.writes, stray |-> buf.stray]]

\* WorkerRaytracer.render after its four field assignments
renderWith(f, data) ==
    Rendered(f, data,
             StoreAll(NewBuffer((data.endRow - data.startRow) * f.width * 4),
                      RenderBand(f, data)))

\* WorkerRaytracer.render on an instance whose fields are `fields`: the fields
\* it leaves, the response it returns and the stores it made
workerRender(fields, data) == renderWith(AssignFields(fields, data), data)

\* the main thread posts a request to worker w
Post(w, msg) ==
    /\ Len(received[w]) + Len(inbox[w]) < MaxRequests
    /\ inbox' = [inbox EXCEPT ![w] = Append(@, msg)]
    /\ UNCHANGED <<seqVars, dispatchVars, kernelVars, wfields, received, posted, stores, channel>>

\* self.postMessage(result) and the return of the handler
PostResult(w, data, result) ==
    /\ wfields' = [wfields EXCEPT ![w] = result.fields]
    /\ inbox' = [inbox EXCEPT ![w] = Tail(@)]
    /\ received' = [received EXCEPT ![w] = Append(@, data)]
    /\ posted' = [posted EXCEPT ![w] = Append(@, result.response)]
    /\ stores' = [stores EXCEPT ![w] = Append(@, result.stores)]
    /\ channel' = channel \cup {[worker |-> w, response |-> result.response]}

\* self.onmessage of worker w: render the request, post the response
OnMessage(w) ==
    /\ inbox[w] # <<>>
    /\ PostResult(w, Head(inbox[w]), workerRender(wfields[w], Head(inbox[w])))
    /\ UNCHANGED <<seqVars, dispatchVars, kernelVars>>

(***************************************************************************)
(* Render dispatcher (parallel path)                                       *)
(***************************************************************************)
\* the contiguous bands with the cut points cuts (a sequence 0 = c0 <= ... <= cn = h)
BandsOf(cuts) == [k \in 1..(Len(cuts) - 1) |-> [startRow |-> cuts[k], endRow |-> cuts[k + 1]]]

\* every partition of the rows [0, h) into n contiguous non-empty bands
Partitions(h, n) ==
    {BandsOf(cuts) : cuts \in {c \in [1..(n + 1) -> 0..h] :
                                  /\ c[1] = 0
                                  /\ c[n + 1] = h
                                  /\ \A k \in 1..n : c[k] < c[k + 1]}}

\* copy a response's pixels into the full buffer at its row offset
Place(buf, response, w) ==
    LET offset == response.startRow * w * 4
        n == (response.endRow - response.startRow) * w * 4
    IN  [buf EXCEPT
           !.data = [i \in DOMAIN buf.data |->
                        IF i >= offset /\ i < offset + n /\ (i - offset) \in DOMAIN response.pixels
                        THEN response.pixels[i - offset] ELSE buf.data[i]],
           !.writes = [i \in DOMAIN buf.writes |->
                        IF i >= offset /\ i < offset + n /\ (i - offset) \in DOMAIN response.pixels
                        THEN buf.writes[i] + 1 ELSE buf.writes[i]]]

\* split the Raytracer's image into bands and post one request per worker
StartParallel(bands) ==
    /\ job = <<>>
    /\ scene # "undefined"
    /\ \A w \in Workers : inbox[w] = <<>> /\ received[w] = <<>>
    /\ job' = <<[scene |-> scene, width |-> width, height |-> height, maxDepth |-> maxDepth,
                 bands |-> bands]>>
    /\ inbox' = [w \in Workers |->
                    IF w <= Len(bands)
                    THEN <<WorkerMessage(scene, width, height, bands[w].startRow,
                                         bands[w].endRow, maxDepth)>>
                    ELSE <<>>]
    /\ full' = NewBuffer(width * height * 4)
    /\ merged' = <<>>
    /\ UNCHANGED <<seqVars, kernelVars, wfields, received, posted, stores, channel>>

\* a response arrives at the dispatcher and is merged
Merge(m) ==
    /\ job # <<>>
    /\ m \in channel
    /\ channel' = channel \ {m}
    /\ full' = Place(full, m.response, job[1].width)
    /\ merged' = Append(merged, m.worker)
    /\ UNCHANGED <<seqVars, kernelVars, wfields, inbox, received, posted, stores, job>>

ParallelDone == job # <<>> /\ Len(merged) = Len(job[1].bands)

(***************************************************************************)
(* Specifications                                                          *)
(***************************************************************************)
InitWorkers ==
    /\ wfields = [w \in Workers |-> NoFields]
    /\ inbox = [w \in Workers |-> <<>>]
    /\ received = [w \in Workers |-> <<>>]
    /\ posted = [w \in Workers |-> <<>>]
    /\ stores = [w \in Workers |-> <<>>]
    /\ channel = {}
    /\ job = <<>>
    /\ full = <<>>
    /\ merged = <<>>

\* no function of the engine is called on its own
InitKernel ==
    /\ fn = "none"
    /\ args = <<>>
    /\ ret = <<>>
    /\ returned = FALSE

\* the Raytracer after construction on a canvas of the given size
InitRaytracer(dims) ==
    /\ impl \in Impls
    /\ scene = "undefined"
    /\ maxDepth = DefaultMaxDepth
    /\ \E d \in dims : width = d[1] /\ height = d[2]
    /\ pc = "idle"
    /\ y = 0
    /\ hasCb = FALSE
    /\ image = <<>>
    /\ canvas = <<>>
    /\ traced = <<>>
    /\ log = <<>>
    /\ error = ""
    /\ appState = "none"
    /\ appError = ""
    /\ pc2 = "idle"
    /\ y2 = 0
    /\ hasCb2 = FALSE
    /\ image2 = <<>>
    /\ presented = <<>>

\* canvases of the sequential renders: small ones, one past the first
\* progress report and one past the second yield
SeqDims == (Widths \X (1..2)) \cup {<<1, ProgressEvery + 1>>, <<1, MaxHeight>>}

Init == InitRaytracer(SeqDims) /\ InitWorkers /\ InitKernel

Next ==
    \/ \E s \in SceneIds : LoadScene(s)
    \/ \E d \in Depths \cup {-1} : SetMaxDepth(d)
    \/ \E cb \in BOOLEAN : StartRender(cb)
    \/ Resume

\* the sequential Raytracer behind RaytracerApp
Spec == Init /\ [][Next]_vars

\* what a step of Resume does to the position of the render: it leaves its
\* await and goes on with the rows left.  Resume is the only step that moves a
\* suspended render, so a TimerFires step of the Raytracer is a Resume step.
TimerFires ==
    /\ pc = "suspended"
    /\ pc' \in {"suspended", "done"}
    /\ y' \in y..height

\* the sequential Raytracer when every timer it set fires: the callback of
\* setTimeout(resolve, 1) runs once the event loop is free
SpecLive == Init /\ [][Next]_vars /\ WF_<<pc, y>>(TimerFires)

\* the Raytracer when render may be called a second time before the first
\* call has returned; the two timers fire in either order
NextOverlap ==
    \/ \E s \in SceneIds : LoadScene(s)
    \/ \E d \in Depths : SetMaxDepth(d)
    \/ \E cb \in BOOLEAN : StartRender(cb)
    \/ Resume
    \/ \E cb \in BOOLEAN : StartOverlapping(cb)
    \/ ResumeOverlapping

\* the Raytracer after construction on a small canvas
InitOverlap ==
    /\ InitRaytracer(Widths \X (1..MaxRows))
    /\ InitWorkers
    /\ InitKernel

SpecOverlap == InitOverlap /\ [][NextOverlap]_vars

\* sequential and parallel render of the scene the Raytracer holds; the page
\* loads the scene and sets the depth before it starts either render
InitParallel ==
    /\ InitRaytracer(Widths \X (1..MaxRows))
    /\ InitWorkers
    /\ InitKernel

NextParallel ==
    \/ \E s \in SceneIds : pc = "idle" /\ job = <<>> /\ LoadScene(s)
    \/ \E d \in Depths : pc = "idle" /\ job = <<>> /\ SetMaxDepth(d)
    \/ StartRender(FALSE)
    \/ \E n \in Workers : \E bands \in Partitions(height, n) : StartParallel(bands)
    \/ \E w \in Workers : OnMessage(w)
    \/ \E m \in channel : Merge(m)

SpecParallel == InitParallel /\ [][NextParallel]_vars

\* one worker instance serving arbitrary well-formed requests
Requests ==
    {WorkerMessage(s, w, h, a, b, d) :
        s \in SceneIds, w \in Widths, h \in {MaxRows}, a \in 0..MaxRows, b \in 0..MaxRows,
        d \in {0, MaxDepth}}

WellFormed(msg) == 0 <= msg.startRow /\ msg.startRow <= msg.endRow /\ msg.endRow <= msg.height

InitWorker == InitRaytracer({<<1, 1>>}) /\ impl = "core" /\ InitWorkers /\ InitKernel

NextWorker ==
    \/ \E msg \in Requests : WellFormed(msg) /\ Post(1, msg)
    \/ OnMessage(1)

SpecWorker == InitWorker /\ [][NextWorker]_vars

(***************************************************************************)
(* Calls of single functions of the engine                                 *)
(***************************************************************************)
\* a sphere at the origin whose material has the given reflectivity
Mirror(reflectivity) ==
    [type |-> "sphere", center |-> Vec(0, 0, 0), radius |-> Lit(1, 0),
     material |-> Material(Col(Lit(0, 200), Lit(1, 0), Lit(0, 200)), reflectivity, Lit(2, 0))]

\* a primitive of a kind no type switch knows, in front of the camera
Torus ==
    [type |-> "torus", center |-> Vec(0, 0, Lit(2, 0)), radius |-> Lit(1, 0),
     material |-> Material(Col(Lit(1, 0), 0, Lit(1, 0)), Lit(0, 500), Lit(2, 0))]

Sky == Col(Lit(0, 100), Lit(0, 100), Lit(0, 200))

SceneWith(lights, objects) ==
    [camera |-> Camera, lights |-> lights, objects |-> objects, backgroundColor |-> Sky]

\* a second light, on the other side of the scene
BackLamp ==
    [position |-> Vec(Lit(-5, 0), Lit(5, 0), Lit(-5, 0)), color |-> White, intensity |-> Lit(2, 0)]

\* scenes for traceRay: the loader's scenes, mirrors of reflectivity 0, 0.5
\* and 1 above a floor, scenes without objects and with one sphere under no,
\* one and two lights, and a scene with a primitive of an unknown kind
TraceScenes ==
    {SceneOf(id) : id \in SceneIds}
    \cup {SceneWith(<<Lamp>>, <<Mirror(r), Floor>>) : r \in {0, Lit(0, 500), Lit(1, 0)}}
    \cup {SceneWith(l, objs) : l \in {<<>>, <<Lamp>>, <<Lamp, BackLamp>>},
                               objs \in {<<>>, <<RedSphere>>}}
    \cup {SceneWith(<<Lamp>>, <<Torus, Mirror(Lit(0, 500)), Floor>>)}

\* rays from the camera position: through the pixels of small canvases,
\* straight up, and down onto the floor
TraceRays(sc) ==
    {getRay(sc, w, w, px[1], px[2]) : w \in 1..MaxWidth, px \in (0..(MaxWidth - 1)) \X (0..(MaxWidth - 1))}
    \cup {Ray(sc.camera.position, Vec(0, Lit(1, 0), 0)),
          Ray(sc.camera.position, Vec(0, Lit(-1, 0), 0))}

TraceRayArgs ==
    {[scene |-> sc, ray |-> r, depth |-> d] :
        sc \in TraceScenes, r \in UNION {TraceRays(q) : q \in TraceScenes},
        d \in Depths \cup {-1}}

\* scenes for the nearest-hit resolver: two spheres in the same place with
\* different materials (in both orders), a box alone and beside other
\* primitives, primitives at different distances, and no primitive at all
FindScenes ==
    {SceneOf(id) : id \in SceneIds}
    \cup {SceneWith(<<Lamp>>, objs) :
            objs \in {<<RedSphere, Mirror(0)>>, <<Mirror(0), RedSphere>>, <<BlueBox>>,
                      <<BlueBox, Floor>>, <<BlueBox, RedSphere>>, <<Floor, RedSphere>>, <<>>}}

\* rays towards the scene along -z, from x = -1 (in the plane of a face of
\* BlueBox, where a slab distance is 0 * Infinity) and from x = 0, at the
\* height of the origin and at that of YellowTriangle
AxisRays ==
    {Ray(Vec(x, 0, Lit(5, 0)), Vec(0, 0, Lit(-1, 0))) : x \in {Lit(-1, 0), 0}}
    \cup {Ray(Vec(0, Lit(2, 0), Lit(5, 0)), Vec(0, 0, Lit(-1, 0)))}

FindArgs ==
    {[scene |-> sc, ray |-> r] : sc \in FindScenes, r \in TraceRays(SceneOf("spheres")) \cup AxisRays}

\* intersectObject is called with the primitives of the loader's scenes, a
\* primitive of an unknown kind, a sphere around the camera and a sphere
\* behind the rays; the rays include four that meet the faces of BlueBox at
\* right angles, at and off the centre of the face, and rays that start
\* inside BlueBox, at its centre and near a corner, in directions along an
\* axis, in a coordinate plane, oblique, and with the zero vector
IntersectArgs ==
    {[ray |-> r, obj |-> o] :
        r \in TraceRays(SceneOf("spheres")) \cup AxisRays
              \cup {Ray(Vec(Lit(0, 800), 0, Lit(5, 0)), Vec(0, 0, Lit(-1, 0))),
                    Ray(Vec(0, Lit(5, 0), Lit(0, 200)), Vec(0, Lit(-1, 0), 0)),
                    Ray(Vec(Lit(5, 0), Lit(0, 300), 0), Vec(Lit(-1, 0), 0, 0)),
                    Ray(Vec(Lit(-5, 0), Lit(0, 700), 0), Vec(Lit(1, 0), 0, 0))}
              \cup {Ray(o, d) : o \in {Vec(0, 0, 0), Vec(Lit(0, 900), Lit(0, -900), Lit(0, 999))},
                                d \in {Vec(0, 0, Lit(-1, 0)), Vec(0, 0, Lit(1, 0)),
                                       Vec(Lit(1, 0), 0, 0), Vec(Lit(0, 600), Lit(0, 800), 0),
                                       Vec(Lit(0, -577), Lit(0, 577), Lit(0, 577)),
                                       Vec(0, 0, 0)}},
        o \in {RedSphere, Floor, BlueBox, YellowTriangle, Torus,
               [RedSphere EXCEPT !.center = Camera.position],
               [RedSphere EXCEPT !.center = Vec(0, 0, Lit(10, 0))]}}

\* lights for calculateLighting.  Seen from the floor below the camera,
\* (0, -1.5, 5), the first of the two on the z axis side lies behind RedSphere
\* and the second in front of it, on the same line
LightsAround ==
    {Lamp, BackLamp,
     [position |-> Vec(0, Lit(1, 500), Lit(-5, 0)), color |-> White, intensity |-> Lit(2, 0)],
     [position |-> Vec(0, Lit(0, -900), Lit(3, 0)), color |-> White, intensity |-> Lit(2, 0)]}

\* calculateLighting is called with a hit of the ray in the scene
CalculateLightingArgs ==
    {[scene |-> sc, hit |-> findClosestIntersection("core", sc, r), light |-> l, ray |-> r] :
        sc \in {SceneOf("spheres"), SceneWith(<<Lamp>>, <<Floor>>)},
        r \in {q \in TraceRays(SceneOf("spheres")) \cup AxisRays :
                  findClosestIntersection("core", SceneWith(<<Lamp>>, <<Floor>>), q).hit
                  \/ findClosestIntersection("core", SceneOf("spheres"), q).hit},
        l \in LightsAround}

\* channel values a colour can hold: from -0.5 to 1.5 in steps of 0.001, the
\* infinities and NaN
Channels == {Lit(0, m) : m \in (-500)..1500} \cup {PInf, NInf, NaN}

\* vectors for Vector3.normalize and Vector3.reflect: components that are
\* zero, too small for their square to be above zero, ordinary, infinite
\* and NaN
Components == {0, Lit(0, 20), Lit(0, -20), Lit(0, 600), Lit(0, 800), Lit(1, 0), Lit(-1, 0),
               Lit(3, 0), Lit(4, 0), PInf, NaN}

Vectors == {Vec(c[1], c[2], c[3]) : c \in Components \X Components \X Components}

\* reflect is called with a vector and a normal whose computed length is 1
ReflectArgs ==
    {[v |-> v, n |-> n] :
        v \in {u \in Vectors : {u.x, u.y, u.z} \subseteq {0, Lit(0, 20), Lit(0, 600), Lit(-1, 0), Lit(3, 0), PInf, NaN}},
        n \in {u \in Vectors : {u.x, u.y, u.z} \subseteq {0, Lit(0, 600), Lit(0, 800), Lit(1, 0), Lit(-1, 0)}
                                 /\ length(u) = Lit(1, 0)}}

\* intersectPlane is called with a plane whose normal normalizes without
\* rounding (along an axis, of any length, or along (3, 4, 0)) and a ray
\* that starts in the plane, above it or below it and runs along it, towards
\* it or away from it
IntersectPlaneArgs ==
    {[ray |-> Ray(o, d),
      plane |-> [type |-> "plane", point |-> p, normal |-> n, material |-> Floor.material]] :
        o \in {Vec(0, 0, 0), Vec(0, Lit(1, 0), Lit(5, 0)), Vec(0, Lit(-3, 0), 0)},
        d \in {Vec(Lit(1, 0), 0, 0), Vec(0, 0, Lit(-1, 0)), Vec(0, Lit(-1, 0), 0),
               Vec(0, Lit(1, 0), 0), Vec(Lit(0, 800), Lit(0, -600), 0),
               Vec(Lit(0, 600), Lit(0, 800), 0), Vec(Lit(-4, 0), Lit(3, 0), 0)},
        p \in {Vec(0, 0, 0), Vec(0, Lit(-1, -500), 0)},
        n \in {Vec(0, Lit(1, 0), 0), Vec(0, Lit(2, 0), 0), Vec(Lit(3, 0), Lit(4, 0), 0),
               Vec(Lit(1, 0), 0, 0), Vec(0, 0, 0)}}

\* getRay is called for the pixels of small canvases with the loader's camera,
\* with cameras that look straight down and straight up, and with a camera
\* whose target is its position
GetRayArgs ==
    {[scene |-> [SceneOf("spheres") EXCEPT !.camera = [position |-> c[1], target |-> c[2], fov |-> Lit(90, 0)]],
      width |-> w, height |-> h, x |-> x, y |-> yy] :
        c \in {<<Camera.position, Camera.target>>,
               <<Vec(0, Lit(5, 0), 0), Vec(0, 0, 0)>>,
               <<Vec(Lit(1, 0), Lit(-2, 0), Lit(3, 0)), Vec(Lit(1, 0), Lit(2, 0), Lit(3, 0))>>,
               <<Vec(0, Lit(1, 0), 0), Vec(0, Lit(1, 0), 0)>>},
        w \in Widths, h \in Widths, x \in 0..(MaxWidth - 1), yy \in 0..(MaxWidth - 1)}

\* the call returns v
Returns(v) ==
    /\ ~returned
    /\ ret' = v
    /\ returned' = TRUE
    /\ UNCHANGED <<seqVars, workerVars, dispatchVars, fn, args>>

\* traceRay called with a ray and a depth; the result records the colour,
\* how many times traceRay was entered and with which depths
CallTraceRay ==
    /\ fn = "traceRay"
    /\ Returns([color |-> traceRay(impl, args.scene, args.ray, args.depth),
                calls |-> traceRayCalls(impl, args.scene, args.ray, args.depth),
                depths |-> traceRayDepths(impl, args.scene, args.ray, args.depth)])

CallFindClosestIntersection ==
    /\ fn = "findClosestIntersection"
    /\ Returns(findClosestIntersection(impl, args.scene, args.ray))

\* intersectObject of the class impl selects
CallIntersectObject ==
    /\ fn = "intersectObject"
    /\ Returns(Intersect(impl, args.ray, args.obj))

CallCalculateLighting ==
    /\ fn = "calculateLighting"
    /\ Returns(calculateLighting(impl, args.scene, args.hit, args.light, args.ray))

\* data[index] = Math.min(255, Math.max(0, channel * 255)) for one channel;
\* the result is the byte the array then holds
CallStoreChannel ==
    /\ fn = "storeChannel"
    /\ Returns(ChannelByte(args))

CallNormalize ==
    /\ fn = "normalize"
    /\ Returns(normalize(args))

CallReflect ==
    /\ fn = "reflect"
    /\ Returns(reflect(args.v, args.n))

CallIntersectPlane ==
    /\ fn = "intersectPlane"
    /\ Returns(intersectPlane(args.ray, args.plane))

CallGetRay ==
    /\ fn = "getRay"
    /\ Returns(getRay(args.scene, args.width, args.height, args.x, args.y))

\* one function of the engine is called with arguments drawn from its inputs
InitCall ==
    /\ InitRaytracer({<<1, 1>>})
    /\ InitWorkers
    /\ ret = <<>>
    /\ returned = FALSE
    /\ \/ fn = "traceRay" /\ args \in TraceRayArgs
       \/ fn = "findClosestIntersection" /\ args \in FindArgs
       \/ fn = "intersectObject" /\ args \in IntersectArgs
       \/ fn = "storeChannel" /\ args \in Channels
       \/ fn = "normalize" /\ args \in Vectors
       \/ fn = "reflect" /\ args \in ReflectArgs
       \/ fn = "intersectPlane" /\ args \in IntersectPlaneArgs
       \/ fn = "getRay" /\ args \in {a \in GetRayArgs : a.x < a.width /\ a.y < a.height}
       \/ fn = "calculateLighting" /\ args \in {a \in CalculateLightingArgs : a.hit.hit}

NextKernel ==
    \/ CallTraceRay
    \/ CallFindClosestIntersection
    \/ CallIntersectObject
    \/ CallCalculateLighting
    \/ CallStoreChannel
    \/ CallNormalize
    \/ CallReflect
    \/ CallIntersectPlane
    \/ CallGetRay

SpecKernel == InitCall /\ [][NextKernel]_vars

(***************************************************************************)
(* Properties                                                              *)
(***************************************************************************)
Pixels(w, h) == (0..(w - 1)) \X (0..(h - 1))

\* C1: once the sequential render and the parallel render of the scene, size
\* and depth the Raytracer holds have both finished, the presented image and
\* the merged full image are the same bytes.
C1_SequentialEqualsParallel ==
    (pc = "done" /\ ParallelDone) => canvas = full.data

\* the same for the Raytracer class of src/core/Raytracer.ts alone
CoreEqualsParallel ==
    (impl = "core" /\ pc = "done" /\ ParallelDone) => canvas = full.data

\* a scene with a box, rendered both ways by the class of src/main.ts
MainRendersBoxScene ==
    impl = "main" /\ pc = "done" /\ ParallelDone /\ scene = "boxes" /\ maxDepth > 0

\* C2: every row of one sequential render is traced against the same scene
\* and the same maxDepth.
C2_SceneFixedDuringRender ==
    \A j, k \in DOMAIN traced :
        traced[j].scene = traced[k].scene /\ traced[j].maxDepth = traced[k].maxDepth

\* the merge of the posted responses in band order, first band first
RECURSIVE MergedInBandOrder(_)
MergedInBandOrder(k) ==
    IF k = 0 THEN NewBuffer(job[1].width * job[1].height * 4)
    ELSE Place(MergedInBandOrder(k - 1), posted[k][1], job[1].width)

\* C3: whatever the order in which the band responses arrived, the merged
\* full image is the one obtained by merging them in band order, and every
\* byte of it was placed exactly once.
C3_MergeOrderIndependent ==
    ParallelDone =>
        /\ full.data = MergedInBandOrder(Len(job[1].bands)).data
        /\ \A i \in DOMAIN full.writes : full.writes[i] = 1

\* the responses of at least two bands arrived out of band order
C3_OutOfOrderWitness ==
    ParallelDone /\ Len(merged) >= 2 /\ merged[1] > merged[2] /\ job[1].width = MaxWidth

Handled(w) == Len(received'[w]) = Len(received[w]) + 1

\* what a worker leaves alone while it serves a request: the pixels of the
\* bands it served before, the other workers, the requests still queued, the
\* dispatcher's buffer and the Raytracer with its scene
LeavesOthersAlone(w) ==
    /\ \A k \in DOMAIN posted[w] : posted'[w][k] = posted[w][k]
    /\ \A v \in Workers \ {w} :
          wfields'[v] = wfields[v] /\ posted'[v] = posted[v] /\ inbox'[v] = inbox[v]
    /\ inbox'[w] = Tail(inbox[w])
    /\ UNCHANGED <<seqVars, dispatchVars>>

\* the stores into the pixel buffer of the request just served: each byte
\* 0 .. (endRow - startRow) * width * 4 - 1 once, and no other index
StoresEachByteOnce(w) ==
    LET data == received'[w][Len(received'[w])]
        st == stores'[w][Len(stores'[w])]
        n == (data.endRow - data.startRow) * data.width * 4
    IN  /\ DOMAIN st.writes = 0..(n - 1)
        /\ \A i \in 0..(n - 1) : st.writes[i] = 1
        /\ st.stray = {}

C6_ResponseDependsOnRequestAlone ==
    \A w \in Workers : \A k \in DOMAIN posted[w] :
        posted[w][k] = workerRender(NoFields, received[w][k]).response

\* a worker served a request after one with another scene and another depth
C6_AfterOtherSceneWitness ==
    \E w \in Workers :
        /\ Len(posted[w]) = 2
        /\ received[w][1].scene # received[w][2].scene
        /\ received[w][1].maxDepth # received[w][2].maxDepth
        /\ received[w][2].endRow > received[w][2].startRow

\* C7: when a sequential render has completed, each of the four bytes of
\* every pixel (x, y) has been stored to exactly once and nothing else was
\* stored to, the rows were processed in the order 0 .. height-1, and every
\* alpha byte is 255.
C7_EveryPixelWrittenOnce ==
    pc = "done" =>
        /\ DOMAIN image.data = 0..(width * height * 4 - 1)
        /\ \A p \in Pixels(width, height), c \in 0..3 :
              image.writes[(p[2] * width + p[1]) * 4 + c] = 1
        /\ image.stray = {}
        /\ Len(traced) = height
        /\ \A k \in DOMAIN traced : traced[k].y = k - 1
        /\ \A p \in Pixels(width, height) : image.data[(p[2] * width + p[1]) * 4 + 3] = 255
        /\ canvas = image.data

\* a render of more than one row and more than one column completed after a yield
C7_CompletedWitness ==
    pc = "done" /\ hasCb /\ width = MaxWidth /\ height > 1

\* C8: the values the progress callback received are in [0, 100] and
\* increase from call to call; a call follows every row y with y mod 10 = 0
\* and passes y / height * 100; the only other call is the last one, which
\* passes 100 right after the buffer was presented.
C8_ProgressReports ==
    LET n == Len(log)
        IsCall(k) == log[k].ev = "progress"
        Reported(k) == log[k].ev = "row" /\ log[k].val % 10 = 0
        Share(k) == FMul(FDiv(Lit(log[k].val, 0), Lit(height, 0)), Lit(100, 0))
    IN  /\ \A k \in 1..n : IsCall(k) => (log[k].val >= 0 /\ log[k].val <= Lit(100, 0))
        /\ \A j, k \in 1..n : (IsCall(j) /\ IsCall(k) /\ j < k) => log[j].val < log[k].val
        /\ \A k \in 1..n : (hasCb /\ Reported(k)) =>
              (k < n /\ IsCall(k + 1) /\ log[k + 1].val = Share(k))
        /\ \A k \in 1..n : IsCall(k) =>
              /\ hasCb
              /\ k > 1
              /\ \/ Reported(k - 1) /\ log[k].val = Share(k - 1)
                 \/ log[k - 1].ev = "present" /\ k = n /\ log[k].val = Lit(100, 0) /\ pc = "done"
        /\ (pc = "done" /\ hasCb) =>
              (n >= 2 /\ IsCall(n) /\ log[n].val = Lit(100, 0) /\ log[n - 1].ev = "present"
               /\ canvas = image.data)

\* a render with a callback completed after more than two reports
C8_SeveralReportsWitness ==
    pc = "done" /\ hasCb /\ height > 2 * ProgressEvery

\* C9: in a render of an image of more than 50 rows, with or without a
\* progress callback, a yield follows every processed row y with y mod 50 = 0
\* before the next row is processed.
C9_YieldsEveryFiftyRows ==
    height > 50 =>
        \A k \in 1..Len(log) :
            (log[k].ev = "row" /\ log[k].val % 50 = 0) =>
                \E j \in (k + 1)..Len(log) :
                    /\ log[j] = Event("yield", log[k].val)
                    /\ \A i \in (k + 1)..j : log[i].ev # "row"

\* C10: a render without a loaded scene ends at once in the error 'No scene
\* loaded', which RaytracerApp.render passes on; no buffer was created, no row
\* traced, the callback not called and nothing presented; and no render gets
\* past its start while no scene is loaded.
C10_NoSceneLoaded ==
    /\ pc = "failed" =>
          /\ error = "No scene loaded"
          /\ appState = "rejected"
          /\ appError = "No scene loaded"
          /\ image = <<>>
          /\ traced = <<>>
          /\ log = <<>>
          /\ canvas = <<>>
    /\ scene = "undefined" => (pc \in {"idle", "failed"} /\ appState \in {"none", "rejected"})

\* a render with a callback was called before any scene was loaded
C10_FailedWitness ==
    pc = "failed" /\ hasCb /\ scene = "undefined"

\* a render has processed every row, presented its buffer and made its last
\* report
RenderCompleted ==
    /\ pc = "done"
    /\ y = height
    /\ {log[k].val : k \in {q \in DOMAIN log : log[q].ev = "row"}} = 0..(height - 1)
    /\ canvas = image.data
    /\ hasCb => log[Len(log)] = Event("progress", Lit(100, 0))
    /\ appState = "resolved"

\* C11: when every timer fires, a render that yielded goes on to process all
\* rows, present the buffer and (with a callback) report 100, whatever
\* loadScene and setMaxDepth calls happen in between; nothing stops it.
C11_RenderCompletes == [](pc = "suspended" => <>RenderCompleted)

\* a render of the tallest canvas completed after yielding twice
C11_ResumedTwiceWitness ==
    /\ RenderCompleted
    /\ height = MaxHeight
    /\ Cardinality({k \in DOMAIN log : log[k].ev = "yield"}) = 2

\* C12: a call of traceRay with depth 0 (the primary ray of a render with
\* maxDepth = 0) enters traceRay once, makes no recursive call, and returns a
\* colour with no reflected contribution (black), whatever the reflectivity
\* of the materials and whatever the scene
C12_NoReflectionAtDepthZero ==
    (fn = "traceRay" /\ returned /\ args.depth = 0)
        => ret.calls = 1 /\ ret.color = Col(0, 0, 0)

\* a primary ray that hits a mirror of reflectivity 1 was traced with depth 0
C12_MirrorWitness ==
    /\ fn = "traceRay" /\ returned /\ args.depth = 0
    /\ args.scene.objects = <<Mirror(Lit(1, 0)), Floor>>
    /\ findClosestIntersection(impl, args.scene, args.ray).hit
    /\ findClosestIntersection(impl, args.scene, args.ray).material.reflectivity = Lit(1, 0)

\* the ray of the call hits no primitive of the scene of the call
Misses == ~findClosestIntersection(impl, args.scene, args.ray).hit

\* C13 as stated: a ray that hits no primitive returns the background colour
C13_MissReturnsBackground ==
    (fn = "traceRay" /\ returned /\ Misses)
        => ret.color = args.scene.backgroundColor

\* C13: a ray that hits no primitive and is traced with depth 1 or more
\* returns exactly scene.backgroundColor, whatever the lights, after a single
\* entry of traceRay (no shading, no reflection)
C13_MissReturnsBackgroundAboveZero ==
    (fn = "traceRay" /\ returned /\ Misses /\ args.depth >= 1)
        => ret.color = args.scene.backgroundColor /\ ret.calls = 1

\* a ray passed a sphere lit by two lights and was traced with depth 2
C13_LitSceneMissWitness ==
    /\ fn = "traceRay" /\ returned /\ Misses /\ args.depth = 2
    /\ args.scene.objects = <<RedSphere>>
    /\ Len(args.scene.lights) = 2
    /\ ret.color = Sky

\* the hit test of the i-th primitive of the scene of the call
HitOf(i) == Intersect(impl, args.ray, args.scene.objects[i])

\* ret is the record of the earliest primitive among those of `among` that
\* no other primitive of `among` is nearer than; with `among` empty it is
\* the not-found record
NearestOf(among) ==
    IF among = {} THEN ret = NoHit(NoMaterial)
    ELSE /\ ret.hit
         /\ \E i \in among :
                /\ ret = HitOf(i)
                /\ \A j \in among : ~FLt(HitOf(j).distance, HitOf(i).distance)
                /\ \A j \in among : j < i => HitOf(j).distance # HitOf(i).distance

HandledTypes == IF impl = "main" THEN {"sphere", "plane"} ELSE {"sphere", "plane", "triangle", "box"}

IsHandled(obj) == obj.type \in HandledTypes

\* the scene without the primitives whose type tag is not handled
WithoutUnhandled(sc) == [sc EXCEPT !.objects = SelectSeq(sc.objects, IsHandled)]

\* C15: intersectObject returns the not-found record (hit = false, distance
\* +infinity) for a primitive whose type tag it has no case for, and a ray
\* traced through a scene gets the colour it gets in the same scene with
\* those primitives removed
C15_UnhandledTypeNeverHits ==
    /\ (fn = "intersectObject" /\ returned /\ ~IsHandled(args.obj))
            => ret = NoHit(NoMaterial)
    /\ (fn = "traceRay" /\ returned)
            => ret.color = traceRay(impl, WithoutUnhandled(args.scene), args.ray, args.depth)

\* a ray that would meet the unhandled primitive first, were it a sphere,
\* was traced through a scene that holds it
C15_TorusInFrontWitness ==
    /\ fn = "traceRay" /\ returned /\ args.depth = 2 /\ impl = "core"
    /\ Torus \in {args.scene.objects[i] : i \in DOMAIN args.scene.objects}
    /\ intersectSphere(args.ray, Torus).hit
    /\ findClosestIntersection(impl, args.scene, args.ray).hit
    /\ FLt(intersectSphere(args.ray, Torus).distance,
           findClosestIntersection(impl, args.scene, args.ray).distance)

\* from the shaded point of the call to the light of the call
ToLight == subtract(args.light.position, args.hit.point)

\* the nearest intersection along the shadow ray of the call
ShadowHit ==
    findClosestIntersection(impl, args.scene,
        Ray(add(args.hit.point, multiply(args.hit.normal, Lit(0, 1))), normalize(ToLight)))

\* a primitive lies between the shaded point and the light
Occluded == ShadowHit.hit /\ FLt(ShadowHit.distance, length(ToLight))

\* C16: calculateLighting returns (0,0,0) whenever the nearest intersection
\* along the shadow ray is closer than the light
C16_OccludedLightContributesZero ==
    (fn = "calculateLighting" /\ returned /\ Occluded) => ret = Col(0, 0, 0)

\* the light was occluded, and without the occluder it would have lit the point
C16_ShadowedFloorWitness ==
    /\ fn = "calculateLighting" /\ returned /\ Occluded
    /\ args.hit.material = Floor.material
    /\ ShadowHit.material = RedSphere.material
    /\ calculateLighting(impl, SceneWith(<<>>, <<Floor>>), args.hit, args.light, args.ray).r > 0

\* a primitive lies on the shadow ray beyond the light, and the point is lit
C16_OccluderBehindLightWitness ==
    /\ fn = "calculateLighting" /\ returned
    /\ ShadowHit.hit /\ ~Occluded
    /\ ret.r > 0

\* min(255, max(0, channel * 255)) for the channel of the call
ClampFormula == MathMin(Lit(255, 0), MathMax(0, FMul(args, Lit(255, 0))))

\* C17 as stated: the byte equals min(255, max(0, channel * 255)) and lies
\* in [0, 255]
C17_ByteEqualsClampFormula ==
    (fn = "storeChannel" /\ returned)
        => ret \in 0..255 /\ Lit(ret, 0) = ClampFormula

\* C17: the byte lies in [0, 255] and is min(255, max(0, channel * 255))
\* rounded to the nearest integer, to the even one when two are equally
\* near; it is 0 when the channel is NaN
C17_ByteIsRoundedClampFormula ==
    (fn = "storeChannel" /\ returned)
        => /\ ret \in 0..255
           /\ args = NaN => ret = 0
           /\ args # NaN =>
                /\ 2 * Abs(Lit(ret, 0) - ClampFormula) <= Scale
                /\ 2 * Abs(Lit(ret, 0) - ClampFormula) = Scale => ret % 2 = 0

\* channel 0.5: the formula gives 127.5 and the byte is 128
C17_HalfWitness ==
    /\ fn = "storeChannel" /\ returned
    /\ args = Lit(0, 500)
    /\ ClampFormula = Lit(127, 500)
    /\ ret = 128

\* the vector of the call with every component divided by len
Over(len) == Vec(FDiv(args.x, len), FDiv(args.y, len), FDiv(args.z, len))

\* C18 as stated: the zero vector for the zero vector, the vector divided by
\* its length for every other vector
C18_ZeroOnlyForZeroVector ==
    (fn = "normalize" /\ returned)
        => IF args = Vec(0, 0, 0) THEN ret = Vec(0, 0, 0) ELSE ret = Over(length(args))

\* C18: normalize returns the zero vector, and raises no fault, whenever
\* the length it computes is 0: for the zero vector and for the vectors whose
\* squared components all round to 0; for every other vector it returns the
\* vector divided by the length it computes
C18_ZeroForZeroLength ==
    (fn = "normalize" /\ returned)
        => IF length(args) = 0 THEN ret = Vec(0, 0, 0) ELSE ret = Over(length(args))

\* a vector that is not the zero vector has computed length 0
C18_UnderflowWitness ==
    /\ fn = "normalize" /\ returned
    /\ args # Vec(0, 0, 0)
    /\ length(args) = 0
    /\ ret = Vec(0, 0, 0)

\* the zero vector was normalized
C18_ZeroVectorWitness == fn = "normalize" /\ returned /\ args = Vec(0, 0, 0) /\ ret = args

\* no component of u is an infinity or NaN
FiniteVector(u) == IsFinite(u.x) /\ IsFinite(u.y) /\ IsFinite(u.z)

\* one component of u is 1 or -1 and the others are 0
AxisAligned(u) == {Abs(u.x), Abs(u.y), Abs(u.z)} = {0, Lit(1, 0)} /\ Abs(u.x) + Abs(u.y) + Abs(u.z) = Lit(1, 0)

C19_RoundingWitness ==
    /\ fn = "reflect" /\ returned /\ FiniteVector(args.v) /\ ~AxisAligned(args.n)
    /\ FiniteVector(reflect(ret, args.n))
    /\ reflect(ret, args.n) # args.v

\* the direction of the ray of the call is at a right angle to the normal of
\* the plane of the call
Parallel == dot(args.ray.direction, args.plane.normal) = 0

\* C20: intersectPlane returns hit = false for every ray whose direction is
\* parallel to the plane (direction dot normal = 0), wherever the ray starts
C20_ParallelRayNeverHitsPlane ==
    (fn = "intersectPlane" /\ returned /\ Parallel) => ret = NoHit(args.plane.material)

\* a ray that starts in the plane and runs along it, the normal being
\* neither a unit vector nor along an axis
C20_RayInPlaneWitness ==
    /\ fn = "intersectPlane" /\ returned /\ Parallel
    /\ args.plane.normal = Vec(Lit(3, 0), Lit(4, 0), 0)
    /\ args.ray.direction # Vec(0, 0, Lit(-1, 0))
    /\ dot(subtract(args.plane.point, args.ray.origin), args.plane.normal) = 0
    /\ ~ret.hit

\* a ray that is not parallel to the plane hit it
C20_CrossingRayWitness == fn = "intersectPlane" /\ returned /\ ~Parallel /\ ret.hit

\* intersectBox is the function the call runs
BoxCall == fn = "intersectObject" /\ returned /\ impl = "core" /\ args.obj.type = "box"

\* the two candidate parameters of the x axis, t1 and t2 of intersectBox
SlabPairX ==
    {slab(args.obj.min.x, args.ray.origin.x, args.ray.direction.x),
     slab(args.obj.max.x, args.ray.origin.x, args.ray.direction.x)}

\* C21: for a ray whose direction has a zero x-component intersectBox
\* returns a record, and t1 and t2 are each +infinity or -infinity, wherever
\* the ray starts
C21_ZeroXSlabPairInfinite ==
    (BoxCall /\ args.ray.direction.x = 0)
        => ret.hit \in BOOLEAN /\ SlabPairX \subseteq {PInf, NInf}

\* target - position of the camera of the call
Forward == subtract(args.scene.camera.target, args.scene.camera.position)

\* forward is parallel to world-up (0, 1, 0)
DegenerateBasis == cross(Forward, Vec(0, Lit(1, 0), 0)) = Vec(0, 0, 0)

C23_HitDistanceAtLeastEpsilon ==
    (fn = "intersectObject" /\ returned /\ impl = "core"
        /\ args.obj.type \in {"sphere", "plane", "triangle", "box"})
        => IF ret.hit THEN FLe(Eps, ret.distance) ELSE ret.distance = PInf

\* intersectSphere is the function the call runs
SphereCall == fn = "intersectObject" /\ returned /\ args.obj.type = "sphere"

\* the coefficients a, b, c of the quadratic of the call and its discriminant
QuadA == dot(args.ray.direction, args.ray.direction)
QuadB == FMul(Lit(2, 0), dot(subtract(args.ray.origin, args.obj.center), args.ray.direction))
QuadC ==
    FSub(dot(subtract(args.ray.origin, args.obj.center), subtract(args.ray.origin, args.obj.center)),
         FMul(args.obj.radius, args.obj.radius))
Discriminant == FSub(FMul(QuadB, QuadB), FMul(FMul(Lit(4, 0), QuadA), QuadC))

\* the smaller and the larger root
SmallerRoot == FDiv(FSub(FNeg(QuadB), MathSqrt(Discriminant)), FMul(Lit(2, 0), QuadA))
LargerRoot == FDiv(FAdd(FNeg(QuadB), MathSqrt(Discriminant)), FMul(Lit(2, 0), QuadA))

\* C24: intersectSphere reports no hit when the discriminant is negative;
\* otherwise the smaller root if it is greater than 0.001, else the larger
\* root if that one is greater than 0.001, else no hit
C24_SphereRootSelection ==
    SphereCall =>
        IF FLt(Discriminant, 0) THEN ret = NoHit(args.obj.material)
        ELSE IF FGt(SmallerRoot, Eps) THEN ret.hit /\ ret.distance = SmallerRoot
        ELSE IF FGt(LargerRoot, Eps) THEN ret.hit /\ ret.distance = LargerRoot
        ELSE ret = NoHit(args.obj.material)

\* the ray started inside the sphere and left it at the larger root
C24_FromInsideWitness ==
    /\ SphereCall
    /\ FLt(SmallerRoot, 0) /\ FGt(LargerRoot, Eps)
    /\ ret.hit /\ ret.distance = LargerRoot

\* the sphere lay behind the ray: both roots negative, no hit
C24_BehindWitness ==
    SphereCall /\ FLe(0, Discriminant) /\ FLt(LargerRoot, 0) /\ ~ret.hit

\* the ray passed the sphere: negative discriminant, no hit
C24_PassedWitness == SphereCall /\ FLt(Discriminant, 0) /\ ~ret.hit

\* the offset of the returned hit point from the centre of the box
BoxOffset == subtract(ret.point, multiply(add(args.obj.min, args.obj.max), Lit(0, 500)))

\* the half-extents of the box
HalfExtent == multiply(subtract(args.obj.max, args.obj.min), Lit(0, 500))

\* the normal chosen from offset p by dividing by e: the signed unit vector
\* of the first axis whose quotient exceeds 1.0001 in absolute value, and
\* (sign(p.x), 0, 0) if there is none
FirstAxisOver(p, e) ==
    IF AboveBias(FDiv(MathAbs(p.x), e.x)) THEN Vec(MathSign(p.x), 0, 0)
    ELSE IF AboveBias(FDiv(MathAbs(p.y), e.y)) THEN Vec(0, MathSign(p.y), 0)
    ELSE IF AboveBias(FDiv(MathAbs(p.z), e.z)) THEN Vec(0, 0, MathSign(p.z))
    ELSE Vec(MathSign(p.x), 0, 0)

C25_OffCentreWitness ==
    /\ BoxCall /\ ret.hit
    /\ BoxOffset.z = HalfExtent.z /\ BoxOffset.x = Lit(0, 800)
    /\ ret.normal = Vec(Lit(1, 0), 0, 0)

\* the closest hit of the ray of the call, and the ray reflected at it
PrimaryHit == findClosestIntersection(impl, args.scene, args.ray)
ReflectedRay == Ray(PrimaryHit.point, normalize(reflect(args.ray.direction, PrimaryHit.normal)))

\* the summed direct lighting at the hit of the call
LocalColor == SumLights(impl, args.scene, PrimaryHit, args.ray, 1, Col(0, 0, 0))

\* local * (1 - k) + reflected * k
Blend(local, reflected, k) == FAdd(FMul(local, FSub(Lit(1, 0), k)), FMul(reflected, k))

\* the traceRay call hit a primitive with depth 1 or more
ShadedCall == fn = "traceRay" /\ returned /\ args.depth >= 1 /\ PrimaryHit.hit

\* the condition under which C26 says traceRay recurses
Recurses == FGt(PrimaryHit.material.reflectivity, 0) /\ args.depth > 1

\* the colour of the reflected ray traced at depth - 1
ReflectedColor == traceRay(impl, args.scene, ReflectedRay, args.depth - 1)

\* C26: traceRay recurses exactly when the reflectivity of the hit material
\* is above 0 and depth is above 1; it then traces the reflected ray at
\* depth - 1 and returns local * (1 - reflectivity) + reflected *
\* reflectivity per channel; otherwise it returns the summed direct lighting
\* unchanged
C26_ReflectionBlend ==
    ShadedCall =>
        IF Recurses
        THEN /\ ret.calls = 1 + traceRayCalls(impl, args.scene, ReflectedRay, args.depth - 1)
             /\ ret.color.r = Blend(LocalColor.r, ReflectedColor.r, PrimaryHit.material.reflectivity)
             /\ ret.color.g = Blend(LocalColor.g, ReflectedColor.g, PrimaryHit.material.reflectivity)
             /\ ret.color.b = Blend(LocalColor.b, ReflectedColor.b, PrimaryHit.material.reflectivity)
        ELSE ret.calls = 1 /\ ret.color = LocalColor

\* a reflective surface was hit with depth 2: one recursive call, and the
\* reflected colour changed the result
C26_RecursedWitness ==
    /\ ShadedCall /\ Recurses
    /\ ret.calls = 2
    /\ ret.color # LocalColor
    /\ ReflectedColor # Col(0, 0, 0)

\* a reflective, lit surface was hit with depth 1: the direct lighting came
\* back unscaled
C26_DepthOneWitness ==
    /\ ShadedCall /\ args.depth = 1
    /\ FGt(PrimaryHit.material.reflectivity, 0)
    /\ LocalColor.g > 0
    /\ ret.color = LocalColor

\* C27: traceRay(ray, d) returns after at most max(1, d) entries of traceRay,
\* which form one chain with the depth falling by one per level, and no
\* recursive call is entered with depth 0 or less
C27_RecursionBoundedByDepth ==
    (fn = "traceRay" /\ returned)
        => /\ ret.calls <= (IF args.depth > 1 THEN args.depth ELSE 1)
           /\ Len(ret.depths) = ret.calls
           /\ \A k \in DOMAIN ret.depths : ret.depths[k] = args.depth - (k - 1)
           /\ \A k \in DOMAIN ret.depths : k > 1 => ret.depths[k] >= 1

\* a call at the largest depth recursed down to depth 1
C27_FullChainWitness ==
    /\ fn = "traceRay" /\ returned
    /\ args.depth = MaxDepth
    /\ ret.calls = MaxDepth
    /\ ret.depths[Len(ret.depths)] = 1

\* the render call returned and traced every row with a maxDepth of 0 or less
RenderedWithoutDepth ==
    /\ pc = "done"
    /\ Len(traced) = height
    /\ \A k \in DOMAIN traced : traced[k].maxDepth <= 0

\* the ray of pixel (x, yy) meets no object of the scene
PixelMisses(x, yy) ==
    ~findClosestIntersection(impl, SceneOf(scene),
                             getRay(SceneOf(scene), width, height, x, yy)).hit

\* C28: an image rendered with maxDepth <= 0 is black and opaque in every
\* pixel, (0, 0, 0, 255), whatever the scene: the background colour is not
\* used, not even for a ray that hits nothing
C28_NoDepthRendersBlack ==
    RenderedWithoutDepth
        => /\ DOMAIN canvas = 0..(width * height * 4 - 1)
           /\ \A i \in DOMAIN canvas : canvas[i] = IF i % 4 = 3 THEN 255 ELSE 0

\* such a render of an image with a pixel whose ray hits nothing
C28_MissingPixelWitness ==
    /\ RenderedWithoutDepth
    /\ \E x \in 0..(width - 1) : \E yy \in 0..(height - 1) : PixelMisses(x, yy)

\* such a render with a negative maxDepth
C28_NegativeDepthWitness ==
    /\ RenderedWithoutDepth
    /\ \E k \in DOMAIN traced : traced[k].maxDepth < 0

\* min < origin < max on every axis
StrictlyInside(o, box) ==
    /\ FLt(box.min.x, o.x) /\ FLt(o.x, box.max.x)
    /\ FLt(box.min.y, o.y) /\ FLt(o.y, box.max.y)
    /\ FLt(box.min.z, o.z) /\ FLt(o.z, box.max.z)

\* the smaller slab distance of one axis
SlabNear(lo, hi, origin, dir) == MathMin(slab(lo, origin, dir), slab(hi, origin, dir))

\* tmin of intersectBox for the call
EntryParameter ==
    MathMax(MathMax(SlabNear(args.obj.min.x, args.obj.max.x,
                             args.ray.origin.x, args.ray.direction.x),
                    SlabNear(args.obj.min.y, args.obj.max.y,
                             args.ray.origin.y, args.ray.direction.y)),
            SlabNear(args.obj.min.z, args.obj.max.z,
                     args.ray.origin.z, args.ray.direction.z))

\* C29: a ray whose origin lies strictly inside a box does not hit the box, in
\* whatever direction it goes: the entry parameter tmin is negative, the
\* result is the miss record, and the exit parameter is not used instead
C29_InsideOriginNeverHits ==
    (BoxCall /\ StrictlyInside(args.ray.origin, args.obj))
        => /\ FLt(EntryParameter, 0)
           /\ ~ret.hit
           /\ ret = NoHit(args.obj.material)

\* a ray from inside the box in an oblique direction
C29_ObliqueWitness ==
    /\ BoxCall /\ StrictlyInside(args.ray.origin, args.obj)
    /\ args.ray.direction.x # 0 /\ args.ray.direction.y # 0 /\ args.ray.direction.z # 0

\* a ray from inside the box with the zero vector as direction
C29_ZeroDirectionWitness ==
    /\ BoxCall /\ StrictlyInside(args.ray.origin, args.obj)
    /\ args.ray.direction = Vec(0, 0, 0)

\* imageData of call k
BufferOf(k) == IF k = 1 THEN image ELSE image2

\* every byte of the buffer was stored to once, and no store fell outside it
FilledOnce(img) ==
    /\ DOMAIN img.data = 0..(width * height * 4 - 1)
    /\ \A i \in DOMAIN img.writes : img.writes[i] = 1
    /\ img.stray = {}

\* C30: when two render calls overlap, each fills a buffer of its own, and what
\* the canvas holds is the whole buffer of the call that presented last: once
\* both have returned, that of the call that finished last
C30_CanvasHoldsOneWholeBuffer ==
    /\ presented # <<>>
          => /\ canvas = BufferOf(presented[Len(presented)]).data
             /\ FilledOnce(BufferOf(presented[Len(presented)]))
    /\ (pc = "done" /\ pc2 = "done")
          => /\ Len(presented) = 2
             /\ presented[1] # presented[2]
             /\ FilledOnce(image) /\ FilledOnce(image2)

\* the second call finished first and the two buffers differ
C30_FirstFinishesLastWitness ==
    /\ pc = "done" /\ pc2 = "done"
    /\ presented = <<2, 1>>
    /\ image.data # image2.data

\* the first call finished first and the two buffers differ
C30_SecondFinishesLastWitness ==
    /\ pc = "done" /\ pc2 = "done"
    /\ presented = <<1, 2>>
    /\ image.data # image2.data

====
